---- MODULE Spec2Model ----
(***************************************************************************)
(* ChatRelay: the tool directory cache (lib/toolBridge.js), the main       *)
(* coordinator loop (lib/agents/mainCoordinator.js) and the helper         *)
(* executor (lib/agents/helperExecutor.js), as state machines.             *)
(*                                                                         *)
(* CacheSpec: independent callers of refreshTools sharing the module-level *)
(*            cache, the gateway answering or failing each request.        *)
(* Spec:      one turn of handleRequest, the completion service, the       *)
(*            gateway and the client (cancellation) as the environment.    *)
(***************************************************************************)
EXTENDS Integers, Sequences, FiniteSets, TLC

(***************************************************************************)
(* Bounds of the model.                                                    *)
(***************************************************************************)
NumCallers == 3
MaxClock == 2
TickMs == 40000
StartClock == 100000
\* tool calls per completion response (coordinator, helper)
MaxCalls == 2
MaxHelperCalls == 1
\* delegation calls the completion service asks for in one turn
MaxDeleg == 1
\* tool calls the completion service asks the coordinator for in one turn
MaxTotalCalls == 5
\* tool calls the completion service asks the helpers for in one turn
MaxHelperTotalCalls == 1
\* tool calls the completion service asks a directly called helper for
MaxDirectCalls == 5
\* length of the tool lists passed to filterToolsForAgent
MaxFilterTools == 3
\* events added to the sessions of the debug event collector between clears
MaxAdds == 502
\* chunks of one completion stream; tool calls asked for in one chat turn
MaxChunks == 2
MaxChatCalls == 6
\* longest conversation handed to a helper prompt
MaxContextLen == 9
\* longest conversation whose roles and lengths vary freely
MaxFreeLen == 2
\* patterns a caller pushes onto one toolPatterns array
MaxPush == 1
\* the maxIterations value a caller writes into a config it holds
WrittenIterations == 1
\* messages a saved list may hold beyond MAX_MESSAGES
MaxOver == 1
\* length of a short message list
ShortList == 2
\* lengths of the task strings the completion service writes
ShortTaskLen == 12
LongTaskLen == 201

(***************************************************************************)
(* Program constants.                                                      *)
(***************************************************************************)
TtlEnvDefault == 60000
TtlFloor == 5000
LogOnceMs == 30000
TOOL_CACHE_TTL_MS == IF TtlEnvDefault > TtlFloor THEN TtlEnvDefault ELSE TtlFloor
MainMaxIterations == 5
ResearchMaxIterations == 4
CodeMaxIterations == 5
HelperContextMessages == 6
TaskPreviewLen == 200
MAX_EVENTS_PER_SESSION == 500
MAX_TOOL_ITERATIONS == 4
SessionKeep == 40
MAX_MESSAGES == 100
CONTEXT_MESSAGE_COUNT == 8

VARIABLES
  \* lib/toolBridge.js module state
  cachedTools, cacheFetchedAt, inflightPromise, lastErrorLog,
  \* environment of the cache: wall clock, requests at the gateway
  clock, remote,
  \* callers of refreshTools
  cpc, cawait, cres, cvia,
  \* history of the cache: the last successful fetch
  everGood, lastGood, lastGoodAt

VARIABLES
  \* handleRequest: parameters
  debug, enableHelpers, conversation, cancel,
  \* handleRequest: locals
  pc, mcpTools, currentMessages, iteration, finalContent, finalToolCalls,
  tidx, toolResults,
  \* handleRequest: how the call ended
  outcome, error, result,
  \* event sinks: sendToken stream and debugEvents log
  sent, debugLog,
  \* executeHelper: locals of the running helper
  hpc, hId, hTask, hTools, hMessages, hIteration, hFinalContent, hToolCalls,
  hIdx, hToolResults,
  \* history: remote calls started, failed calls
  modelCalls, hModelCalls, gatewayCalls, helperRuns, refreshCalls,
  failedCalls, failedDelegs, delegAsked, callsAsked, hCallsAsked

VARIABLES
  \* agentRegistry.filterToolsForAgent called on its own: arguments, result
  fConfig, fTools, fResult,
  \* debug event collector: the sessionEvents map; events added per session
  \* since it was last cleared
  sessionEvents, addedCount,
  \* POST /api/chat (server.js): position, connection, frames written to the
  \* response stream, session messages, persisted history
  chPc, clientClosed, frames, resEnded, sessionMessages, history,
  \* handleAssistantResponse and streamModelResponse: locals
  chIterations, chText, chCalls, chChunks, chIdx, chOutcome, chError,
  \* history of the chat turn: completion calls, tool calls asked for
  chModelCalls, chAsked

VARIABLES
  \* toolBridge.executeToolCall called on its own: position, the call, how it
  \* ended, the requests sent to POST /call-tool
  tcPc, tcCall, tcOutcome, tcRequests,
  \* lib/historyStore.js: the cache object, the history file, the last call
  hsCache, hsDisk, hsLast

VARIABLES
  \* lib/agents/agentRegistry.js: the maxIterations field of each config
  \* object, the number of patterns pushed onto each toolPatterns array, the
  \* value the caller holds from its last registry call, and that call with
  \* the result it read
  cfgMaxIter, cfgPushed, held, regLast

regVars == <<cfgMaxIter, cfgPushed, held, regLast>>

VARIABLES
  \* the conversation context of one helper prompt (helperExecutor.js 77-86):
  \* position, the conversation handed in, the helper's contextWindow, the
  \* lines rendered into the prompt
  cwPc, cwConv, cwWindow, cwLines

ctxVars == <<cwPc, cwConv, cwWindow, cwLines>>

libVars == <<regVars, ctxVars>>
execVars == <<tcPc, tcCall, tcOutcome, tcRequests>>
storeVars == <<hsCache, hsDisk, hsLast>>

filterVars == <<fConfig, fTools, fResult>>
collectorVars == <<sessionEvents, addedCount>>
chatVars == <<chPc, clientClosed, frames, resEnded, sessionMessages, history,
              chIterations, chText, chCalls, chChunks, chIdx, chOutcome,
              chError, chModelCalls, chAsked>>
auxVars == <<filterVars, collectorVars, chatVars, execVars, storeVars, libVars>>

coordVars == <<debug, enableHelpers, conversation, cancel,
               pc, mcpTools, currentMessages, iteration, finalContent,
               finalToolCalls, tidx, toolResults, outcome, error, result,
               sent, debugLog>>
helperVars == <<hpc, hId, hTask, hTools, hMessages, hIteration, hFinalContent,
                hToolCalls, hIdx, hToolResults>>
histVars == <<modelCalls, hModelCalls, gatewayCalls, helperRuns, refreshCalls,
              failedCalls, failedDelegs, delegAsked, callsAsked, hCallsAsked>>

cacheVars == <<cachedTools, cacheFetchedAt, inflightPromise, lastErrorLog,
               clock, remote, cpc, cawait, cres, cvia,
               everGood, lastGood, lastGoodAt>>

turnVars == <<coordVars, helperVars, histVars>>

vars == <<cacheVars, coordVars, helperVars, histVars, auxVars>>

\* the caller of refreshTools that stands for the turn (coordinator and helper)
CoordCaller == 1

Callers == 1..NumCallers

(***************************************************************************)
(* Gateway payloads of GET /tools.  A raw entry is either not an object or *)
(* an object whose optional fields may be absent.                          *)
(***************************************************************************)
NonObject == [kind |-> "nonobj", name |-> "absent", description |-> "absent",
              origin |-> "absent", parameters |-> "absent"]
RawFetch == [kind |-> "obj", name |-> "_fetch", description |-> "Fetch a URL",
             origin |-> "absent", parameters |-> "schema"]
RawRunJs == [kind |-> "obj", name |-> "_run_js", description |-> "absent",
             origin |-> "remote", parameters |-> "absent"]
RawNoName == [kind |-> "obj", name |-> "absent", description |-> "absent",
              origin |-> "absent", parameters |-> "nonobject"]

Payloads == { [isArray |-> FALSE, tools |-> <<>>],
              [isArray |-> TRUE, tools |-> <<>>],
              [isArray |-> TRUE, tools |-> <<NonObject, RawFetch, RawRunJs>>],
              [isArray |-> TRUE, tools |-> <<RawNoName>>] }

\* payloads the gateway answers with during a turn
TurnPayloads == { [isArray |-> TRUE, tools |-> <<NonObject, RawFetch, RawRunJs>>] }

NullTool == [kind |-> "null"]

normalizeTool(tool) ==
  IF tool.kind # "obj" THEN NullTool
  ELSE [kind |-> "tool",
        name |-> tool.name,
        description |-> IF tool.description = "absent" THEN "" ELSE tool.description,
        origin |-> IF tool.origin = "absent" THEN "mcp" ELSE tool.origin,
        parameters |-> IF tool.parameters = "schema" THEN "schema" ELSE "default"]

MapNormalize(raw) == [i \in 1..Len(raw) |-> normalizeTool(raw[i])]
FilterBoolean(s) == SelectSeq(s, LAMBDA t : t.kind # "null")

\* lines 58-59: rawTools.map(normalizeTool).filter(Boolean)
NormalizePayload(payload) ==
  LET rawTools == IF payload.isArray THEN payload.tools ELSE <<>>
  IN FilterBoolean(MapNormalize(rawTools))

\* line 49: the cache is served when not forced, non-empty and younger than the TTL
CacheFresh(force) ==
  /\ ~force
  /\ Len(cachedTools) # 0
  /\ clock - cacheFetchedAt < TOOL_CACHE_TTL_MS

\* line 52: a fetch is in flight
HasInflight == inflightPromise # 0

InitCache ==
  /\ cachedTools = <<>>
  /\ cacheFetchedAt = 0
  /\ inflightPromise = 0
  /\ lastErrorLog = 0
  /\ clock = StartClock
  /\ remote = {}
  /\ cpc = [p \in Callers |-> "idle"]
  /\ cawait = [p \in Callers |-> 0]
  /\ cres = [p \in Callers |-> <<>>]
  /\ cvia = [p \in Callers |-> "none"]
  /\ everGood = FALSE
  /\ lastGood = <<>>
  /\ lastGoodAt = 0

\* refreshTools without the in-flight check of lines 52-54
refreshToolsNoCoalescing(p, force) ==
  /\ cpc[p] = "idle"
  /\ IF CacheFresh(force)
     THEN /\ cpc' = [cpc EXCEPT ![p] = "resolved"]
          /\ cres' = [cres EXCEPT ![p] = cachedTools]
          /\ cvia' = [cvia EXCEPT ![p] = "cache"]
          /\ UNCHANGED <<inflightPromise, remote, cawait>>
     ELSE /\ inflightPromise' = p
          /\ remote' = remote \cup {[owner |-> p, force |-> force]}
          /\ cpc' = [cpc EXCEPT ![p] = "awaiting"]
          /\ cawait' = [cawait EXCEPT ![p] = p]
          /\ UNCHANGED <<cres, cvia>>
  /\ UNCHANGED <<cachedTools, cacheFetchedAt, lastErrorLog, clock,
                 everGood, lastGood, lastGoodAt>>

(***************************************************************************)
(* refreshTools(force), up to its first suspension point.                  *)
(***************************************************************************)
refreshTools(p, force) ==
  /\ cpc[p] = "idle"
  /\ IF CacheFresh(force)
     THEN /\ cpc' = [cpc EXCEPT ![p] = "resolved"]
          /\ cres' = [cres EXCEPT ![p] = cachedTools]
          /\ cvia' = [cvia EXCEPT ![p] = "cache"]
          /\ UNCHANGED <<inflightPromise, remote, cawait>>
     ELSE IF HasInflight
     THEN /\ cpc' = [cpc EXCEPT ![p] = "awaiting"]
          /\ cawait' = [cawait EXCEPT ![p] = inflightPromise]
          /\ UNCHANGED <<inflightPromise, remote, cres, cvia>>
     ELSE /\ inflightPromise' = p
          /\ remote' = remote \cup {[owner |-> p, force |-> force]}
          /\ cpc' = [cpc EXCEPT ![p] = "awaiting"]
          /\ cawait' = [cawait EXCEPT ![p] = p]
          /\ UNCHANGED <<cres, cvia>>
  /\ UNCHANGED <<cachedTools, cacheFetchedAt, lastErrorLog, clock,
                 everGood, lastGood, lastGoodAt>>

\* the promise of owner o settles: every caller awaiting it resumes with
\* status st ("resolved" or "rejected") and value v; via tells which branch of
\* the try/catch produced the value
Settle(o, st, v, via) ==
  /\ cpc' = [q \in Callers |->
               IF cpc[q] = "awaiting" /\ cawait[q] = o THEN st ELSE cpc[q]]
  /\ cvia' = [q \in Callers |->
               IF cpc[q] = "awaiting" /\ cawait[q] = o THEN via ELSE cvia[q]]
  /\ cres' = [q \in Callers |->
               IF cpc[q] = "awaiting" /\ cawait[q] = o THEN v ELSE cres[q]]
  /\ cawait' = [q \in Callers |->
               IF cpc[q] = "awaiting" /\ cawait[q] = o THEN 0 ELSE cawait[q]]

\* lines 57-61 and 68-70: the gateway answers request r with a payload
FetchSucceeds(r, payload) ==
  /\ r \in remote
  /\ remote' = remote \ {r}
  /\ cachedTools' = NormalizePayload(payload)
  /\ cacheFetchedAt' = clock
  /\ inflightPromise' = 0
  /\ Settle(r.owner, "resolved", NormalizePayload(payload), "ok")
  /\ everGood' = TRUE
  /\ lastGood' = NormalizePayload(payload)
  /\ lastGoodAt' = clock
  /\ UNCHANGED <<lastErrorLog, clock>>

\* lines 11-17
logOnce == IF clock - lastErrorLog > LogOnceMs THEN clock ELSE lastErrorLog

\* a failure handler that answers with an empty list whatever the cache holds
FetchFailsForgetsCache(r) ==
  /\ r \in remote
  /\ remote' = remote \ {r}
  /\ lastErrorLog' = logOnce
  /\ inflightPromise' = 0
  /\ Settle(r.owner, "resolved", <<>>, "fail")
  /\ UNCHANGED <<cachedTools, cacheFetchedAt, clock,
                 everGood, lastGood, lastGoodAt>>

\* lines 62-67 without the finally of lines 68-70: the marker outlives a
\* failed fetch
FetchFailsKeepsMarker(r) ==
  /\ r \in remote
  /\ remote' = remote \ {r}
  /\ lastErrorLog' = logOnce
  /\ Settle(r.owner, "resolved",
            IF Len(cachedTools) = 0 THEN <<>> ELSE cachedTools, "fail")
  /\ UNCHANGED <<cachedTools, cacheFetchedAt, clock, inflightPromise,
                 everGood, lastGood, lastGoodAt>>

\* a failure handler that stamps the cache as fetched now
FetchFailsStampsCache(r) ==
  /\ r \in remote
  /\ remote' = remote \ {r}
  /\ lastErrorLog' = logOnce
  /\ inflightPromise' = 0
  /\ cacheFetchedAt' = clock
  /\ Settle(r.owner, "resolved",
            IF Len(cachedTools) = 0 THEN <<>> ELSE cachedTools, "fail")
  /\ UNCHANGED <<cachedTools, clock, everGood, lastGood, lastGoodAt>>

\* lines 62-70: the request fails (network error or non-2xx status)
FetchFails(r) ==
  /\ r \in remote
  /\ remote' = remote \ {r}
  /\ lastErrorLog' = logOnce
  /\ inflightPromise' = 0
  /\ Settle(r.owner, "resolved",
            IF Len(cachedTools) = 0 THEN <<>> ELSE cachedTools, "fail")
  /\ UNCHANGED <<cachedTools, cacheFetchedAt, clock,
                 everGood, lastGood, lastGoodAt>>

\* the caller consumes the settled promise
Consume(p) ==
  /\ cpc[p] \in {"resolved", "rejected"}
  /\ cpc' = [cpc EXCEPT ![p] = "idle"]
  /\ cres' = [cres EXCEPT ![p] = <<>>]
  /\ cvia' = [cvia EXCEPT ![p] = "none"]
  /\ UNCHANGED <<cachedTools, cacheFetchedAt, inflightPromise, lastErrorLog,
                 clock, remote, cawait, everGood, lastGood, lastGoodAt>>

\* Date.now() advances
Tick ==
  /\ clock < StartClock + MaxClock * TickMs
  /\ clock' = clock + TickMs
  /\ UNCHANGED <<cachedTools, cacheFetchedAt, inflightPromise, lastErrorLog,
                 remote, cpc, cawait, cres, cvia,
                 everGood, lastGood, lastGoodAt>>

CallRefresh ==
  /\ \E p \in Callers, force \in BOOLEAN : refreshTools(p, force)
  /\ UNCHANGED turnVars
  /\ UNCHANGED auxVars
GatewayAnswers ==
  /\ \E r \in remote, payload \in Payloads : FetchSucceeds(r, payload)
  /\ UNCHANGED turnVars
  /\ UNCHANGED auxVars
GatewayFails ==
  /\ \E r \in remote : FetchFails(r)
  /\ UNCHANGED turnVars
  /\ UNCHANGED auxVars

CallerConsumes ==
  /\ \E p \in Callers : Consume(p)
  /\ UNCHANGED turnVars
  /\ UNCHANGED auxVars

ClockTicks ==
  /\ Tick
  /\ UNCHANGED turnVars
  /\ UNCHANGED auxVars

CacheNext ==
  \/ CallRefresh
  \/ GatewayAnswers
  \/ GatewayFails
  \/ CallerConsumes
  \/ ClockTicks


(***************************************************************************)
(* Agent registry (lib/agents/agentRegistry.js).                           *)
(***************************************************************************)
HelperIds == {"research", "code"}

maxIterations(helperId) ==
  IF helperId = "research" THEN ResearchMaxIterations ELSE CodeMaxIterations

\* getHelperAgentTools: one delegation tool per helper
DelegationName(helperId) ==
  IF helperId = "research" THEN "call_research_agent" ELSE "call_code_agent"

getHelperAgentTools ==
  { [name |-> DelegationName(h), helperId |-> h, origin |-> "helper-agent",
     required |-> {"task"}] : h \in HelperIds }

\* property names every JavaScript object inherits
InheritedKeys == {"constructor"}

\* ids a caller may pass to executeHelper
DirectHelperIds == HelperIds \cup InheritedKeys \cup {"unknown_helper"}

\* getHelperAgent: HELPER_AGENT_CONFIGS[helperId] ? {...} : null.  An inherited
\* property is truthy and spreads to an object without fields.
getHelperAgent(helperId) ==
  IF helperId \in HelperIds THEN [kind |-> "config", id |-> helperId]
  ELSE IF helperId \in InheritedKeys THEN [kind |-> "empty", id |-> helperId]
  ELSE [kind |-> "null", id |-> helperId]

\* the anchored patterns /^name$/ of each helper, by the name they spell
toolPatterns(config) ==
  IF config.kind # "config" THEN <<>>
  ELSE IF config.id = "research"
  THEN <<"_fetch", "_search_npm_packages", "_create_entities",
         "_create_relations", "_add_observations", "_read_graph",
         "_search_nodes", "_open_nodes">>
  ELSE <<"_run_js", "_run_js_ephemeral", "_sandbox_exec", "_sandbox_initialize",
         "_sandbox_stop", "_get_dependency_types", "_create_entities",
         "_create_relations", "_add_observations", "_read_graph",
         "_search_nodes">>

\* pattern.test(name) for /^pattern$/; a missing name is tested as "undefined"
Test(pattern, name) == name # "absent" /\ pattern = name

MatchesSome(config, name) ==
  \E i \in 1..Len(toolPatterns(config)) : Test(toolPatterns(config)[i], name)

\* a filter that keeps every tool once the config has patterns
filterToolsForAgentKeepsAll(agentConfig, allTools) ==
  IF agentConfig.kind # "config" THEN <<>> ELSE allTools

\* filterToolsForAgent
filterToolsForAgent(agentConfig, allTools) ==
  IF agentConfig.kind # "config" THEN <<>>
  ELSE SelectSeq(allTools, LAMBDA tool : MatchesSome(agentConfig, tool.name))

(***************************************************************************)
(* Messages, tool calls and events.                                        *)
(***************************************************************************)
Text(kind, n) == [kind |-> kind, n |-> n]
NoCalls == <<>>

Msg(role, content, calls, callId, origin, name) ==
  [role |-> role, content |-> content, tool_calls |-> calls,
   tool_call_id |-> callId, origin |-> origin, name |-> name]

SystemPrompt == Msg("system", Text("system-prompt", 0), NoCalls, 0, "", "")
CurrentUser == Msg("system", Text("current-user", 0), NoCalls, 0, "", "")
UserMessage == Msg("user", Text("user-message", 0), NoCalls, 0, "", "")
AssistantMsg(content, calls) == Msg("assistant", content, calls, 0, "", "")

\* conversations the caller may pass in
PriorConversations ==
  { << Msg("user", Text("prior", 1), NoCalls, 0, "", ""),
       Msg("assistant", Text("prior", 2), NoCalls, 0, "", "") >> }

\* tool names and argument strings a completion response may carry
ToolNames == {"_fetch", "call_research_agent", "call_code_agent"}
\* "no-task" is an object without a task field, "null" the JSON value null
ArgStrings ==
  {"task-and-context", "long-task-and-context", "malformed", "no-task", "null"}

\* a task string, by its length; JSON without a task field gives undefined
NoTask == [defined |-> FALSE, len |-> 0]
TaskText(n) == [defined |-> TRUE, len |-> n]
TaskOf(arguments) ==
  IF arguments = "task-and-context" THEN TaskText(ShortTaskLen)
  ELSE IF arguments = "long-task-and-context" THEN TaskText(LongTaskLen)
  ELSE NoTask

\* task?.substring(0, n)
Substring(task, n) ==
  IF task.defined /\ task.len > n THEN TaskText(n) ELSE task

Call(id, name, arguments) == [id |-> id, name |-> name, arguments |-> arguments]
CallId(iter, k) == iter * 10 + k

\* JSON.parse of an argument string: ok is FALSE when it throws
JsonParse(arguments) ==
  [ok |-> arguments # "malformed", isNull |-> arguments = "null",
   hasTask |-> TaskOf(arguments).defined, task |-> TaskOf(arguments)]

\* lines 128-132: malformed arguments become {}
ParsedArgs(arguments) ==
  IF JsonParse(arguments).ok THEN JsonParse(arguments)
  ELSE [ok |-> TRUE, isNull |-> FALSE, hasTask |-> FALSE, task |-> NoTask]

\* line 135: helperTools.find(t => t.name === toolName)
HelperTools == IF enableHelpers THEN getHelperAgentTools ELSE {}
\* line 135 with the helper tools looked up whether or not helpers are enabled
IsDelegationAlways(name) == \E t \in getHelperAgentTools : t.name = name

IsDelegation(name) == \E t \in HelperTools : t.name = name
HelperOf(name) == (CHOOSE t \in getHelperAgentTools : t.name = name).helperId

Ev(type, n, h) == [type |-> type, n |-> n, h |-> h]

\* lines 61-75
mainAgentMessages(conv) == <<SystemPrompt, CurrentUser>> \o conv \o <<UserMessage>>

\* line 271 with the slice taken after the two system prompts only
newMessagesAfterPrompts(conv, msgs) == SubSeq(msgs, 3, Len(msgs))

\* line 271: the messages appended by this run
newMessages(conv, msgs) ==
  SubSeq(msgs, Len(mainAgentMessages(conv)) + 1, Len(msgs))

NoResult == [content |-> Text("", 0), toolCalls |-> NoCalls, iterations |-> 0,
             messages |-> <<>>]

InitTurn ==
  /\ debug = FALSE /\ enableHelpers = FALSE /\ conversation = <<>>
  /\ cancel = FALSE
  /\ pc = "idle"
  /\ mcpTools = <<>>
  /\ currentMessages = <<>>
  /\ iteration = 0
  /\ finalContent = Text("", 0)
  /\ finalToolCalls = NoCalls
  /\ tidx = 0
  /\ toolResults = <<>>
  /\ outcome = "none" /\ error = "" /\ result = NoResult
  /\ sent = <<>> /\ debugLog = <<>>
  /\ hpc = "none" /\ hId = "" /\ hTask = "" /\ hTools = <<>>
  /\ hMessages = <<>> /\ hIteration = 0
  /\ hFinalContent = Text("", 0) /\ hToolCalls = NoCalls /\ hIdx = 0
  /\ hToolResults = <<>>
  /\ modelCalls = 0 /\ hModelCalls = 0 /\ gatewayCalls = 0 /\ helperRuns = 0
  /\ refreshCalls = 0
  /\ failedCalls = {} /\ failedDelegs = {} /\ delegAsked = 0 /\ callsAsked = 0
  /\ hCallsAsked = 0

cacheFrame == <<cachedTools, cacheFetchedAt, inflightPromise, lastErrorLog,
                clock, remote, cpc, cawait, cres, cvia,
                everGood, lastGood, lastGoodAt>>

(***************************************************************************)
(* handleRequest (lib/agents/mainCoordinator.js).                          *)
(***************************************************************************)
\* lines 27-41: the call, up to `await toolBridge.refreshTools()`
StartRun ==
  /\ pc = "idle"
  /\ \E d \in BOOLEAN, e \in BOOLEAN, conv \in PriorConversations :
       /\ debug' = d
       /\ enableHelpers' = e
       /\ conversation' = conv
  /\ refreshTools(CoordCaller, FALSE)
  /\ refreshCalls' = refreshCalls + 1
  /\ pc' = "refresh"
  /\ UNCHANGED <<cancel, mcpTools, currentMessages, iteration, finalContent,
                 finalToolCalls, tidx, toolResults, outcome, error, result,
                 sent, debugLog>>
  /\ UNCHANGED helperVars
  /\ UNCHANGED <<modelCalls, hModelCalls, gatewayCalls, helperRuns,
                 failedCalls, failedDelegs, delegAsked, callsAsked, hCallsAsked>>
  /\ UNCHANGED auxVars

\* lines 41-81: the tool list resolves; the prompt is assembled
ToolsResolved ==
  /\ pc = "refresh"
  /\ cpc[CoordCaller] = "resolved"
  /\ Consume(CoordCaller)
  /\ mcpTools' = cres[CoordCaller]
  /\ currentMessages' = mainAgentMessages(conversation)
  /\ iteration' = 0
  /\ finalContent' = Text("", 0)
  /\ finalToolCalls' = NoCalls
  /\ pc' = "loop"
  /\ UNCHANGED <<debug, enableHelpers, conversation, cancel, tidx, toolResults,
                 outcome, error, result, sent, debugLog>>
  /\ UNCHANGED helperVars
  /\ UNCHANGED histVars
  /\ UNCHANGED auxVars

paramVars == <<debug, enableHelpers, conversation>>
endVars == <<outcome, error, result>>

\* lines 271-279: handleRequest returns
Returns(content, calls, iter, msgs) ==
  /\ pc' = "done"
  /\ outcome' = "returned"
  /\ error' = ""
  /\ result' = [content |-> content, toolCalls |-> calls, iterations |-> iter,
                messages |-> newMessages(conversation, msgs)]

\* an exception leaves handleRequest
Throws(err) ==
  /\ pc' = "done"
  /\ outcome' = "threw"
  /\ error' = err
  /\ result' = result

\* line 83, with `<=` for `<`
LoopContinuesOffByOne == iteration <= MainMaxIterations

\* line 83
LoopContinues == iteration < MainMaxIterations

\* line 86: shouldStop && shouldStop()
shouldStop == cancel

\* lines 83-98 as a loop that neither issues a completion call nor returns:
\* the run stays at the loop head
LoopHeadSpins ==
  /\ pc = "loop"
  /\ UNCHANGED <<pc, endVars, iteration, modelCalls>>
  /\ UNCHANGED <<paramVars, cancel, mcpTools, currentMessages, finalContent,
                 finalToolCalls, tidx, toolResults, sent, debugLog>>
  /\ UNCHANGED helperVars
  /\ UNCHANGED <<hModelCalls, gatewayCalls, helperRuns, refreshCalls,
                 failedCalls, failedDelegs, delegAsked, callsAsked, hCallsAsked>>
  /\ UNCHANGED cacheFrame
  /\ UNCHANGED auxVars

\* lines 83-98: loop test, cancellation poll, completion call issued
LoopHead ==
  /\ pc = "loop"
  /\ IF ~LoopContinues
     THEN /\ Returns(finalContent, finalToolCalls, iteration, currentMessages)
          /\ UNCHANGED <<iteration, modelCalls>>
     ELSE /\ iteration' = iteration + 1
          /\ IF shouldStop
             THEN /\ Returns(finalContent, finalToolCalls, iteration + 1,
                             currentMessages)
                  /\ UNCHANGED modelCalls
             ELSE /\ pc' = "model"
                  /\ modelCalls' = modelCalls + 1
                  /\ UNCHANGED endVars
  /\ UNCHANGED <<paramVars, cancel, mcpTools, currentMessages, finalContent,
                 finalToolCalls, tidx, toolResults, sent, debugLog>>
  /\ UNCHANGED helperVars
  /\ UNCHANGED <<hModelCalls, gatewayCalls, helperRuns, refreshCalls,
                 failedCalls, failedDelegs, delegAsked, callsAsked, hCallsAsked>>
  /\ UNCHANGED cacheFrame
  /\ UNCHANGED auxVars

IsDelegationName(name) == \E t \in getHelperAgentTools : t.name = name

\* name and arguments of one tool call; the length of the task text only
\* shows in delegation calls, and its absence in those of the coordinator
NamedArgs(names) ==
  { na \in names \X ArgStrings :
      /\ na[2] = "long-task-and-context" => IsDelegationName(na[1])
      /\ na[2] \in {"no-task", "null"}
           => (IsDelegationName(na[1]) /\ hpc = "none") }

\* the tool-call lists a completion response may carry at this point of the turn
ResponseCalls(iter, maxCalls, names) ==
  UNION { { [i \in 1..k |-> Call(CallId(iter, i), na[i][1], na[i][2])] :
              na \in [1..k -> NamedArgs(names)] } :
          k \in 0..maxCalls }

DelegationsIn(calls) ==
  Cardinality({ i \in 1..Len(calls) : IsDelegationName(calls[i].name) })

\* events.splice(0, events.length - MAX_EVENTS_PER_SESSION), dropping the
\* newest events instead
TrimKeepsOldest(events) ==
  IF Len(events) > MAX_EVENTS_PER_SESSION
  THEN SubSeq(events, 1, MAX_EVENTS_PER_SESSION)
  ELSE events

\* events.splice(0, events.length - MAX_EVENTS_PER_SESSION) when over the cap
Trim(events) ==
  IF Len(events) > MAX_EVENTS_PER_SESSION
  THEN SubSeq(events, Len(events) - MAX_EVENTS_PER_SESSION + 1, Len(events))
  ELSE events

\* lines 102-110, logging an iteration only when its response has tool calls
LogMainIterationIfCalls(log, iter, calls) ==
  IF debug /\ Len(calls) > 0
  THEN Trim(Append(log, [type |-> "main-iteration", n |-> iter,
                         k |-> Len(calls), h |-> ""]))
  ELSE log

\* lines 103-110: debugEvents.logMainIteration
LogMainIteration(log, iter, calls) ==
  IF debug THEN Trim(Append(log, [type |-> "main-iteration", n |-> iter,
                                  k |-> Len(calls), h |-> ""]))
  ELSE log

\* lines 113-119, continuing the loop instead of leaving it
AfterNoToolCallsContinues(content) ==
  /\ currentMessages' = Append(currentMessages, AssistantMsg(content, NoCalls))
  /\ pc' = "loop"
  /\ UNCHANGED endVars

\* lines 113-119: no tool calls, the final assistant message, break
AfterNoToolCalls(content) ==
  /\ currentMessages' = Append(currentMessages, AssistantMsg(content, NoCalls))
  /\ Returns(content, NoCalls, iteration,
             Append(currentMessages, AssistantMsg(content, NoCalls)))

\* lines 92-122: the completion call resolves with a response
ModelResponds ==
  /\ pc = "model"
  /\ \E calls \in ResponseCalls(iteration, MaxCalls, ToolNames) :
       /\ delegAsked + DelegationsIn(calls) <= MaxDeleg
       /\ delegAsked' = delegAsked + DelegationsIn(calls)
       /\ callsAsked + Len(calls) <= MaxTotalCalls
       /\ callsAsked' = callsAsked + Len(calls)
       /\ finalContent' = Text("response", iteration)
       /\ finalToolCalls' = calls
       /\ debugLog' = LogMainIteration(debugLog, iteration, calls)
       /\ IF Len(calls) = 0
          THEN /\ AfterNoToolCalls(Text("response", iteration))
               /\ UNCHANGED <<tidx, toolResults>>
          ELSE /\ tidx' = 1
               /\ toolResults' = <<>>
               /\ pc' = "tools"
               /\ UNCHANGED <<currentMessages, endVars>>
  /\ UNCHANGED <<paramVars, cancel, mcpTools, iteration, sent>>
  /\ UNCHANGED helperVars
  /\ UNCHANGED <<modelCalls, hModelCalls, gatewayCalls, helperRuns,
                 refreshCalls, failedCalls, failedDelegs, hCallsAsked>>
  /\ UNCHANGED cacheFrame
  /\ UNCHANGED auxVars

\* line 92: the completion call rejects; nothing in handleRequest catches it
ModelThrows ==
  /\ pc = "model"
  /\ Throws("completion")
  /\ UNCHANGED <<paramVars, cancel, mcpTools, currentMessages, iteration,
                 finalContent, finalToolCalls, tidx, toolResults, sent, debugLog>>
  /\ UNCHANGED helperVars
  /\ UNCHANGED histVars
  /\ UNCHANGED cacheFrame
  /\ UNCHANGED auxVars

\* executeHelper is running, called by the coordinator or directly
InHelper == pc \in {"helper", "direct"}

\* the client goes away while the turn is suspended on a remote call
AtSuspensionPoint ==
  \/ pc \in {"refresh", "model", "tool"}
  \/ InHelper /\ hpc \in {"refresh", "model", "tool"}

SetCancel ==
  /\ AtSuspensionPoint
  /\ ~cancel
  /\ cancel' = TRUE
  /\ UNCHANGED <<paramVars, pc, mcpTools, currentMessages, iteration,
                 finalContent, finalToolCalls, tidx, toolResults, endVars,
                 sent, debugLog>>
  /\ UNCHANGED helperVars
  /\ UNCHANGED histVars
  /\ UNCHANGED cacheFrame
  /\ UNCHANGED auxVars

(***************************************************************************)
(* Tool calls of one response (lines 122-266).                             *)
(***************************************************************************)
CurrentCall == finalToolCalls[tidx]

\* lines 256-266 with the tool results left out of the conversation
AdvanceToolDropsResults(results) ==
  IF tidx < Len(finalToolCalls)
  THEN /\ tidx' = tidx + 1
       /\ toolResults' = results
       /\ pc' = "tools"
       /\ UNCHANGED currentMessages
  ELSE /\ tidx' = 0
       /\ toolResults' = <<>>
       /\ currentMessages' =
            Append(currentMessages, AssistantMsg(finalContent, finalToolCalls))
       /\ pc' = "loop"

\* lines 256-266: next tool call, or the assistant message and the results
\* are appended and the loop goes on
AdvanceTool(results) ==
  IF tidx < Len(finalToolCalls)
  THEN /\ tidx' = tidx + 1
       /\ toolResults' = results
       /\ pc' = "tools"
       /\ UNCHANGED currentMessages
  ELSE /\ tidx' = 0
       /\ toolResults' = <<>>
       /\ currentMessages' =
            Append(currentMessages, AssistantMsg(finalContent, finalToolCalls))
              \o results
       /\ pc' = "loop"

HelperEvent(type, call, k) ==
  [type |-> type, n |-> call.id, k |-> k, h |-> HelperOf(call.name)]

\* lines 139-146: the helper-spawn event of the push stream
SpawnEvent(call) ==
  [type |-> "helper-spawn", n |-> call.id, h |-> HelperOf(call.name),
   task |-> ParsedArgs(call.arguments).task]

\* debugEvents.logHelperSpawn: the task is cut to a preview
logHelperSpawn(call) ==
  [type |-> "helper-spawn", n |-> call.id, h |-> HelperOf(call.name),
   task |-> Substring(ParsedArgs(call.arguments).task, TaskPreviewLen)]

\* lines 139-146, 170-176, 197-202: if (debug && sendToken) sendToken(...)
SendToken(stream, ev) == IF debug THEN Append(stream, ev) ELSE stream

\* lines 149-155, 179-185, 205-210, 227-234, 245-252: if (debug) debugEvents.log...
LogDebug(log, ev) == IF debug THEN Trim(Append(log, ev)) ELSE log

\* the helper leaves no state behind
HelperGone ==
  /\ hpc' = "none" /\ hId' = "" /\ hTask' = "" /\ hTools' = <<>>
  /\ hMessages' = <<>> /\ hIteration' = 0
  /\ hFinalContent' = Text("", 0) /\ hToolCalls' = NoCalls /\ hIdx' = 0
  /\ hToolResults' = <<>>

\* lines 194-219 with the error thrown on to the caller of handleRequest
OnHelperThrowAborts(stream, log) ==
  /\ sent' = SendToken(stream, HelperEvent("helper-error", CurrentCall, 0))
  /\ debugLog' = LogDebug(log, HelperEvent("helper-error", CurrentCall, 0))
  /\ failedDelegs' = failedDelegs \cup {CurrentCall.id}
  /\ Throws("helper")
  /\ UNCHANGED <<tidx, toolResults, currentMessages>>

\* lines 194-219: executeHelper threw; the error becomes a tool result
OnHelperThrow(stream, log) ==
  /\ sent' = SendToken(stream, HelperEvent("helper-error", CurrentCall, 0))
  /\ debugLog' = LogDebug(log, HelperEvent("helper-error", CurrentCall, 0))
  /\ failedDelegs' = failedDelegs \cup {CurrentCall.id}
  /\ AdvanceTool(Append(toolResults,
        Msg("tool", Text("helper-error", CurrentCall.id), NoCalls,
            CurrentCall.id, "helper-agent", CurrentCall.name)))
  /\ UNCHANGED endVars

\* lines 170-193 with the helper's message list handed on to the conversation
OnHelperReturnLeaks(content, iters) ==
  /\ sent' = SendToken(sent, HelperEvent("helper-complete", CurrentCall, iters))
  /\ debugLog' = LogDebug(debugLog, HelperEvent("helper-complete", CurrentCall, iters))
  /\ AdvanceTool(toolResults \o hMessages \o
        <<Msg("tool",
              IF content.kind = "" THEN Text("helper-default", 0) ELSE content,
              NoCalls, CurrentCall.id, "helper-agent", CurrentCall.name)>>)
  /\ UNCHANGED <<endVars, failedDelegs>>

\* lines 170-193 without the helper-complete events
OnHelperReturnSilent(content, iters) ==
  /\ UNCHANGED <<sent, debugLog>>
  /\ AdvanceTool(Append(toolResults,
        Msg("tool",
            IF content.kind = "" THEN Text("helper-default", 0) ELSE content,
            NoCalls, CurrentCall.id, "helper-agent", CurrentCall.name)))
  /\ UNCHANGED <<endVars, failedDelegs>>

\* lines 170-193: executeHelper returned {content, iterations}
OnHelperReturn(content, iters) ==
  /\ sent' = SendToken(sent, HelperEvent("helper-complete", CurrentCall, iters))
  /\ debugLog' = LogDebug(debugLog, HelperEvent("helper-complete", CurrentCall, iters))
  /\ AdvanceTool(Append(toolResults,
        Msg("tool",
            IF content.kind = "" THEN Text("helper-default", 0) ELSE content,
            NoCalls, CurrentCall.id, "helper-agent", CurrentCall.name)))
  /\ UNCHANGED <<endVars, failedDelegs>>

\* lines 137-168 with executeHelper started and not awaited: the loop over
\* the tool calls goes on while the helper runs
StartDelegationDetached ==
  /\ pc = "tools"
  /\ IsDelegation(CurrentCall.name)
  /\ helperRuns' = helperRuns + 1
  /\ IF ParsedArgs(CurrentCall.arguments).hasTask
     THEN /\ sent' = SendToken(sent, SpawnEvent(CurrentCall))
          /\ debugLog' = LogDebug(debugLog, logHelperSpawn(CurrentCall))
          /\ refreshTools(CoordCaller, FALSE)
          /\ refreshCalls' = refreshCalls + 1
          /\ AdvanceTool(toolResults)
          /\ hpc' = "refresh"
          /\ hId' = HelperOf(CurrentCall.name)
          /\ hTask' = CurrentCall.arguments
          /\ UNCHANGED <<hTools, hMessages, hIteration, hFinalContent, hToolCalls, hIdx,
                         hToolResults>>
          /\ UNCHANGED <<endVars, failedDelegs>>
     ELSE \* task.substring on an undefined task throws inside the try block
          /\ OnHelperThrow(
               SendToken(sent, SpawnEvent(CurrentCall)),
               LogDebug(debugLog, logHelperSpawn(CurrentCall)))
          /\ UNCHANGED helperVars
          /\ UNCHANGED refreshCalls
          /\ UNCHANGED cacheFrame
  /\ UNCHANGED <<paramVars, cancel, mcpTools, iteration, finalContent,
                 finalToolCalls>>
  /\ UNCHANGED <<modelCalls, hModelCalls, gatewayCalls, failedCalls, delegAsked,
                 callsAsked, hCallsAsked>>
  /\ UNCHANGED auxVars

\* lines 137-168 and helperExecutor.js lines 35-44: a delegation call is
\* announced and executeHelper runs up to its first suspension point
StartDelegation ==
  /\ pc = "tools"
  /\ IsDelegation(CurrentCall.name)
  /\ helperRuns' = IF ParsedArgs(CurrentCall.arguments).isNull
                    THEN helperRuns ELSE helperRuns + 1
  /\ IF ParsedArgs(CurrentCall.arguments).isNull /\ debug
     THEN \* lines 139-155: args.task on null throws before the try block
          /\ Throws("type-error")
          /\ UNCHANGED <<sent, debugLog, failedDelegs, tidx, toolResults,
                         currentMessages>>
          /\ UNCHANGED helperVars
          /\ UNCHANGED refreshCalls
          /\ UNCHANGED cacheFrame
     ELSE IF ParsedArgs(CurrentCall.arguments).isNull
     THEN \* line 160: args.task on null throws inside the try block
          /\ OnHelperThrow(sent, debugLog)
          /\ UNCHANGED helperVars
          /\ UNCHANGED refreshCalls
          /\ UNCHANGED cacheFrame
     ELSE IF ParsedArgs(CurrentCall.arguments).hasTask
     THEN /\ sent' = SendToken(sent, SpawnEvent(CurrentCall))
          /\ debugLog' = LogDebug(debugLog, logHelperSpawn(CurrentCall))
          /\ refreshTools(CoordCaller, FALSE)
          /\ refreshCalls' = refreshCalls + 1
          /\ pc' = "helper"
          /\ hpc' = "refresh"
          /\ hId' = HelperOf(CurrentCall.name)
          /\ hTask' = CurrentCall.arguments
          /\ UNCHANGED <<hTools, hMessages, hIteration, hFinalContent, hToolCalls, hIdx,
                         hToolResults>>
          /\ UNCHANGED <<tidx, toolResults, currentMessages, endVars, failedDelegs>>
     ELSE \* task.substring on an undefined task throws inside the try block
          /\ OnHelperThrow(
               SendToken(sent, SpawnEvent(CurrentCall)),
               LogDebug(debugLog, logHelperSpawn(CurrentCall)))
          /\ UNCHANGED helperVars
          /\ UNCHANGED refreshCalls
          /\ UNCHANGED cacheFrame
  /\ UNCHANGED <<paramVars, cancel, mcpTools, iteration, finalContent,
                 finalToolCalls>>
  /\ UNCHANGED <<modelCalls, hModelCalls, gatewayCalls, failedCalls, delegAsked,
                 callsAsked, hCallsAsked>>
  /\ UNCHANGED auxVars

ToolEvent(call, ok) ==
  [type |-> "tool-execution", n |-> call.id, k |-> IF ok THEN 1 ELSE 0,
   h |-> call.name]

\* toolBridge.js lines 91-98: string arguments must parse as JSON
ArgumentsParse(call) == JsonParse(call.arguments).ok

\* lines 243-254 without the tool-execution event
OnToolThrowSilent ==
  /\ UNCHANGED debugLog
  /\ failedCalls' = failedCalls \cup {CurrentCall.id}
  /\ Throws("tool")
  /\ UNCHANGED <<tidx, toolResults, currentMessages>>

\* lines 243-254: the error is logged and thrown on
OnToolThrow ==
  /\ debugLog' = LogDebug(debugLog, ToolEvent(CurrentCall, FALSE))
  /\ failedCalls' = failedCalls \cup {CurrentCall.id}
  /\ Throws("tool")
  /\ UNCHANGED <<tidx, toolResults, currentMessages>>

\* lines 220-224 and toolBridge.js lines 87-101: an ordinary tool call, up to
\* the request to the gateway
StartToolCall ==
  /\ pc = "tools"
  /\ ~IsDelegation(CurrentCall.name)
  /\ IF ArgumentsParse(CurrentCall)
     THEN /\ gatewayCalls' = gatewayCalls + 1
          /\ pc' = "tool"
          /\ UNCHANGED <<debugLog, failedCalls, tidx, toolResults,
                         currentMessages, endVars>>
     ELSE /\ OnToolThrow
          /\ UNCHANGED gatewayCalls
  /\ UNCHANGED <<paramVars, cancel, mcpTools, iteration, finalContent,
                 finalToolCalls, sent>>
  /\ UNCHANGED helperVars
  /\ UNCHANGED <<modelCalls, hModelCalls, helperRuns, refreshCalls,
                 failedDelegs, delegAsked, callsAsked, hCallsAsked>>
  /\ UNCHANGED cacheFrame
  /\ UNCHANGED auxVars

\* lines 224-242 with the result put in front of the earlier ones
ToolReturnsUnshifts ==
  /\ pc = "tool"
  /\ debugLog' = LogDebug(debugLog, ToolEvent(CurrentCall, TRUE))
  /\ AdvanceTool(<<Msg("tool", Text("tool-result", CurrentCall.id), NoCalls,
                       CurrentCall.id, "mcp-tool", CurrentCall.name)>>
                 \o toolResults)
  /\ UNCHANGED <<paramVars, cancel, mcpTools, iteration, finalContent,
                 finalToolCalls, endVars, sent>>
  /\ UNCHANGED helperVars
  /\ UNCHANGED histVars
  /\ UNCHANGED cacheFrame
  /\ UNCHANGED auxVars

\* lines 224-242: the gateway answers the call
ToolReturns ==
  /\ pc = "tool"
  /\ debugLog' = LogDebug(debugLog, ToolEvent(CurrentCall, TRUE))
  /\ AdvanceTool(Append(toolResults,
        Msg("tool", Text("tool-result", CurrentCall.id), NoCalls,
            CurrentCall.id, "mcp-tool", CurrentCall.name)))
  /\ UNCHANGED <<paramVars, cancel, mcpTools, iteration, finalContent,
                 finalToolCalls, endVars, sent>>
  /\ UNCHANGED helperVars
  /\ UNCHANGED histVars
  /\ UNCHANGED cacheFrame
  /\ UNCHANGED auxVars

\* toolBridge.js lines 100-105: the gateway is unreachable or answers non-2xx
ToolFails ==
  /\ pc = "tool"
  /\ OnToolThrow
  /\ UNCHANGED <<paramVars, cancel, mcpTools, iteration, finalContent,
                 finalToolCalls, sent>>
  /\ UNCHANGED helperVars
  /\ UNCHANGED <<modelCalls, hModelCalls, gatewayCalls, helperRuns,
                 refreshCalls, failedDelegs, delegAsked, callsAsked, hCallsAsked>>
  /\ UNCHANGED cacheFrame
  /\ UNCHANGED auxVars

(***************************************************************************)
(* executeHelper (lib/agents/helperExecutor.js), run for CurrentCall.      *)
(***************************************************************************)
\* tool names the completion service puts in a helper's responses, the names
\* of delegation tools among them
HelperResponseNames ==
  IF pc = "direct" THEN {"_fetch", "_run_js", "call_research_agent"}
  ELSE {"_fetch", "call_code_agent"}

HelperCallBudget ==
  IF pc = "direct" THEN MaxDirectCalls ELSE MaxHelperTotalCalls

SliceLast(seq, n) ==
  IF Len(seq) <= n THEN seq ELSE SubSeq(seq, Len(seq) - n + 1, Len(seq))

contextWindow(helperId) == IF helperId = "research" THEN 6 ELSE 8

\* mainCoordinator.js line 162: conversation.slice(-6), the list the
\* coordinator hands to executeHelper
DelegatedConversation == SliceLast(conversation, HelperContextMessages)

\* line 79: conversation.slice(-helper.contextWindow); without a contextWindow
\* the slice is the whole list
RecentMessages(helperId, conv) ==
  IF getHelperAgent(helperId).kind = "config"
  THEN SliceLast(conv, contextWindow(helperId))
  ELSE conv

\* lines 58-92: the helper's private message list
helperMessages(helperId, arguments, conv) ==
  <<Msg("system", Text("helper-prompt", 0), NoCalls, 0, "", ""), CurrentUser>>
  \o (IF TaskOf(arguments).defined
      THEN <<Msg("system", Text("coordinator-context", 0), NoCalls, 0, "", "")>>
      ELSE <<>>)
  \o (IF Len(conv) > 0 /\ Len(RecentMessages(helperId, conv)) > 0
      THEN <<Msg("system",
                 Text("recent-conversation",
                      Len(RecentMessages(helperId, conv))),
                 NoCalls, 0, "", "")>>
      ELSE <<>>)
  \o <<Msg("user", Text("task", 0), NoCalls, 0, "", "")>>

\* the parts of the turn a step inside the helper leaves alone
insideHelperFrame ==
  <<paramVars, cancel, mcpTools, currentMessages, iteration, finalContent,
    finalToolCalls, tidx, toolResults, endVars, sent, debugLog, pc>>

\* in every step of the helper
helperStepFrame ==
  <<paramVars, cancel, mcpTools, iteration, finalContent, finalToolCalls,
    modelCalls, helperRuns, failedCalls, delegAsked, callsAsked>>

\* lines 44-97: the tool list resolves; the private message list is built
HelperToolsResolved ==
  /\ InHelper /\ hpc = "refresh"
  /\ cpc[CoordCaller] = "resolved"
  /\ Consume(CoordCaller)
  /\ hTools' = filterToolsForAgent(getHelperAgent(hId), cres[CoordCaller])
  /\ hMessages' = helperMessages(hId, hTask,
                      IF pc = "helper"
                      THEN DelegatedConversation
                      ELSE conversation)
  /\ hIteration' = 0
  /\ hFinalContent' = Text("", 0)
  /\ hpc' = "loop"
  /\ UNCHANGED <<hId, hTask, hToolCalls, hIdx, hToolResults>>
  /\ UNCHANGED insideHelperFrame
  /\ UNCHANGED histVars
  /\ UNCHANGED auxVars

\* executeHelper, called directly, returns {content, iterations, helperId}
DirectReturn(content, iters) ==
  /\ pc' = "done"
  /\ outcome' = "returned"
  /\ error' = ""
  /\ result' = [content |-> content, iterations |-> iters, helperId |-> hId]
  /\ UNCHANGED <<sent, debugLog, tidx, toolResults, currentMessages,
                 failedDelegs>>

\* executeHelper, called directly, rejects
DirectThrow(err) ==
  /\ Throws(err)
  /\ UNCHANGED <<sent, debugLog, tidx, toolResults, currentMessages,
                 failedDelegs>>

\* lines 149-153: executeHelper returns
HelperReturns(content, iters) ==
  /\ IF pc = "helper" THEN OnHelperReturn(content, iters)
     ELSE DirectReturn(content, iters)
  /\ HelperGone

\* an exception leaves executeHelper
HelperThrows ==
  /\ IF pc = "helper" THEN OnHelperThrow(sent, debugLog)
     ELSE DirectThrow("helper-failure")
  /\ HelperGone

\* line 99, with `<=` for `<`
HelperLoopContinuesOffByOne ==
  getHelperAgent(hId).kind = "config" /\ hIteration <= maxIterations(hId)

\* line 99
HelperLoopContinues ==
  getHelperAgent(hId).kind = "config" /\ hIteration < maxIterations(hId)

\* lines 99-114: loop test, cancellation poll, completion call issued
HelperLoopHead ==
  /\ InHelper /\ hpc = "loop"
  /\ IF ~HelperLoopContinues
     THEN /\ HelperReturns(hFinalContent, hIteration)
          /\ UNCHANGED hModelCalls
     ELSE IF shouldStop
     THEN /\ HelperReturns(hFinalContent, hIteration + 1)
          /\ UNCHANGED hModelCalls
     ELSE /\ hIteration' = hIteration + 1
          /\ hpc' = "model"
          /\ hModelCalls' = hModelCalls + 1
          /\ UNCHANGED <<hId, hTask, hTools, hMessages, hFinalContent, hToolCalls, hIdx,
                         hToolResults>>
          /\ UNCHANGED <<currentMessages, tidx, toolResults, endVars, sent,
                         debugLog, pc, failedDelegs>>
  /\ UNCHANGED helperStepFrame
  /\ UNCHANGED <<gatewayCalls, refreshCalls, hCallsAsked>>
  /\ UNCHANGED cacheFrame
  /\ UNCHANGED auxVars

\* lines 108-121: the completion call resolves with a response
HelperModelResponds ==
  /\ InHelper /\ hpc = "model"
  /\ \E calls \in ResponseCalls(hIteration, MaxHelperCalls, HelperResponseNames) :
       /\ hCallsAsked + Len(calls) <= HelperCallBudget
       /\ hCallsAsked' = hCallsAsked + Len(calls)
       /\ LET content == Text("helper-response", hIteration)
          IN IF Len(calls) = 0
             THEN /\ HelperReturns(content, hIteration)
             ELSE /\ hFinalContent' = content
                  /\ hToolCalls' = calls
                  /\ hIdx' = 1
                  /\ hToolResults' = <<>>
                  /\ hpc' = "tools"
                  /\ UNCHANGED <<hId, hTask, hTools, hMessages, hIteration>>
                  /\ UNCHANGED <<currentMessages, tidx, toolResults, endVars,
                                 sent, debugLog, pc, failedDelegs>>
  /\ UNCHANGED helperStepFrame
  /\ UNCHANGED <<hModelCalls, gatewayCalls, refreshCalls>>
  /\ UNCHANGED cacheFrame
  /\ UNCHANGED auxVars

\* line 108: the completion call rejects inside the helper
HelperModelThrows ==
  /\ InHelper /\ hpc = "model"
  /\ HelperThrows
  /\ UNCHANGED helperStepFrame
  /\ UNCHANGED <<hModelCalls, gatewayCalls, refreshCalls, hCallsAsked>>
  /\ UNCHANGED cacheFrame
  /\ UNCHANGED auxVars

HelperCurrentCall == hToolCalls[hIdx]

\* line 126 with calls that carry the name of a delegation tool handed to
\* the helper executor, as the coordinator does, instead of the gateway
HelperStartToolCallNested ==
  /\ InHelper /\ hpc = "tools"
  /\ IF IsDelegationName(HelperCurrentCall.name)
     THEN /\ helperRuns' = helperRuns + 1
          /\ hpc' = "tool"
          /\ UNCHANGED gatewayCalls
          /\ UNCHANGED <<hId, hTask, hTools, hMessages, hIteration, hFinalContent, hToolCalls,
                         hIdx, hToolResults>>
          /\ UNCHANGED <<currentMessages, tidx, toolResults, endVars, sent,
                         debugLog, pc, failedDelegs>>
     ELSE IF ArgumentsParse(HelperCurrentCall)
     THEN /\ gatewayCalls' = gatewayCalls + 1
          /\ hpc' = "tool"
          /\ UNCHANGED helperRuns
          /\ UNCHANGED <<hId, hTask, hTools, hMessages, hIteration, hFinalContent, hToolCalls,
                         hIdx, hToolResults>>
          /\ UNCHANGED <<currentMessages, tidx, toolResults, endVars, sent,
                         debugLog, pc, failedDelegs>>
     ELSE /\ HelperThrows
          /\ UNCHANGED <<gatewayCalls, helperRuns>>
  /\ UNCHANGED <<paramVars, cancel, mcpTools, iteration, finalContent,
                 finalToolCalls, modelCalls, failedCalls, delegAsked,
                 callsAsked>>
  /\ UNCHANGED <<hModelCalls, refreshCalls, hCallsAsked>>
  /\ UNCHANGED cacheFrame
  /\ UNCHANGED auxVars

\* line 126 and toolBridge.js lines 87-101: a tool call of the helper, up to
\* the request to the gateway
HelperStartToolCall ==
  /\ InHelper /\ hpc = "tools"
  /\ IF ArgumentsParse(HelperCurrentCall)
     THEN /\ gatewayCalls' = gatewayCalls + 1
          /\ hpc' = "tool"
          /\ UNCHANGED <<hId, hTask, hTools, hMessages, hIteration, hFinalContent, hToolCalls,
                         hIdx, hToolResults>>
          /\ UNCHANGED <<currentMessages, tidx, toolResults, endVars, sent,
                         debugLog, pc, failedDelegs>>
     ELSE /\ HelperThrows
          /\ UNCHANGED gatewayCalls
  /\ UNCHANGED helperStepFrame
  /\ UNCHANGED <<hModelCalls, refreshCalls, hCallsAsked>>
  /\ UNCHANGED cacheFrame
  /\ UNCHANGED auxVars

\* lines 126-143: the gateway answers the helper's call
HelperToolReturns ==
  /\ InHelper /\ hpc = "tool"
  /\ LET results == Append(hToolResults,
            Msg("tool", Text("tool-result", HelperCurrentCall.id), NoCalls,
                HelperCurrentCall.id, "", HelperCurrentCall.name))
     IN IF hIdx < Len(hToolCalls)
        THEN /\ hIdx' = hIdx + 1
             /\ hToolResults' = results
             /\ hpc' = "tools"
             /\ UNCHANGED hMessages
        ELSE /\ hIdx' = 0
             /\ hToolResults' = <<>>
             /\ hMessages' = Append(hMessages,
                                    AssistantMsg(hFinalContent, hToolCalls))
                               \o results
             /\ hpc' = "loop"
  /\ UNCHANGED <<hId, hTask, hTools, hIteration, hFinalContent, hToolCalls>>
  /\ UNCHANGED insideHelperFrame
  /\ UNCHANGED histVars
  /\ UNCHANGED cacheFrame
  /\ UNCHANGED auxVars

\* line 126: executeToolCall rejects; nothing in executeHelper catches it
HelperToolFails ==
  /\ InHelper /\ hpc = "tool"
  /\ HelperThrows
  /\ UNCHANGED helperStepFrame
  /\ UNCHANGED <<hModelCalls, gatewayCalls, refreshCalls, hCallsAsked>>
  /\ UNCHANGED cacheFrame
  /\ UNCHANGED auxVars

(***************************************************************************)
(* executeHelper and filterToolsForAgent called on their own, as the unit  *)
(* tests call them.                                                        *)
(***************************************************************************)
\* argument strings of a direct call: a task with context, or no task
DirectArgs == {"task-and-context", "malformed"}

\* helperExecutor.js lines 27-44: the call, up to `await refreshTools()`
CallExecuteHelper ==
  /\ pc = "idle"
  /\ \E id \in DirectHelperIds, args \in DirectArgs, conv \in PriorConversations :
       /\ conversation' = conv
       /\ IF getHelperAgent(id).kind = "null"
          THEN /\ Throws("unknown-helper")
               /\ UNCHANGED <<helperVars, refreshCalls, cacheFrame>>
          ELSE IF ~TaskOf(args).defined
          THEN \* line 41: task.substring on undefined
               /\ Throws("type-error")
               /\ UNCHANGED <<helperVars, refreshCalls, cacheFrame>>
          ELSE /\ refreshTools(CoordCaller, FALSE)
               /\ refreshCalls' = refreshCalls + 1
               /\ pc' = "direct"
               /\ hpc' = "refresh"
               /\ hId' = id
               /\ hTask' = args
               /\ UNCHANGED <<hTools, hMessages, hIteration, hFinalContent,
                              hToolCalls, hIdx, hToolResults, endVars>>
  /\ UNCHANGED <<debug, enableHelpers, cancel, mcpTools, currentMessages,
                 iteration, finalContent, finalToolCalls, tidx, toolResults,
                 sent, debugLog>>
  /\ UNCHANGED <<modelCalls, hModelCalls, gatewayCalls, helperRuns, failedCalls,
                 failedDelegs, delegAsked, callsAsked, hCallsAsked>>
  /\ UNCHANGED auxVars

\* tool descriptors a caller may pass to filterToolsForAgent
Descriptor(name) ==
  [kind |-> "tool", name |-> name, description |-> "", origin |-> "mcp",
   parameters |-> "default"]

FilterNames == {"_fetch", "_run_js", "_create_entities", "_send_mail", "absent"}

FilterInputs ==
  UNION { [1..k -> { Descriptor(n) : n \in FilterNames }] : k \in 0..MaxFilterTools }

\* agentRegistry.js lines 246-254, called with any config getHelperAgent returns
CallFilterTools ==
  /\ pc = "idle"
  /\ fConfig.kind = "none"
  /\ \E id \in DirectHelperIds, tools \in FilterInputs :
       /\ fConfig' = getHelperAgent(id)
       /\ fTools' = tools
       /\ fResult' = filterToolsForAgent(getHelperAgent(id), tools)
  /\ UNCHANGED <<cacheVars, turnVars, collectorVars, chatVars, execVars, storeVars, libVars>>

(***************************************************************************)
(* Debug event collector: addEvent, getEvents, clearEvents on the          *)
(* module-level map of session name to event list.                         *)
(***************************************************************************)
Sessions == {"alice", "bob"}

\* user names a caller may pass; "" stands for a missing name
Usernames == Sessions \cup {""}

\* the n-th event added to a session since it was last cleared
Event(n) == [seq |-> n]

\* getEvents(username)
getEvents(username) ==
  IF username = "" THEN <<>>
  ELSE IF username \in DOMAIN sessionEvents THEN sessionEvents[username]
  ELSE <<>>

RECURSIVE SumOver(_, _)
SumOver(f, S) ==
  IF S = {} THEN 0
  ELSE LET x == CHOOSE y \in S : TRUE IN f[x] + SumOver(f, S \ {x})

\* events the sessions hold or have evicted since they were last cleared
TotalAdded == SumOver(addedCount, Sessions)

\* addEvent(username, event)
addEvent ==
  /\ \E username \in Usernames :
       IF username = ""
       THEN UNCHANGED <<sessionEvents, addedCount>>
       ELSE /\ TotalAdded < MaxAdds
            /\ addedCount' = [addedCount EXCEPT ![username] = @ + 1]
            /\ sessionEvents' =
                 [u \in DOMAIN sessionEvents \cup {username} |->
                    IF u = username
                    THEN Trim(Append(getEvents(username),
                                     Event(addedCount[username] + 1)))
                    ELSE sessionEvents[u]]
  /\ UNCHANGED <<cacheVars, turnVars, filterVars, chatVars, execVars, storeVars, libVars>>

\* sessionEvents.delete(username)
clearEventsDeletes(username) ==
  [u \in DOMAIN sessionEvents \ {username} |-> sessionEvents[u]]

\* clearEvents(username)
clearEvents ==
  /\ \E username \in Usernames :
       IF username = ""
       THEN UNCHANGED <<sessionEvents, addedCount>>
       ELSE /\ sessionEvents' = clearEventsDeletes(username)
            /\ addedCount' = [addedCount EXCEPT ![username] = 0]
  /\ UNCHANGED <<cacheVars, turnVars, filterVars, chatVars, execVars, storeVars, libVars>>

InitAux ==
  /\ fConfig = [kind |-> "none", id |-> ""] /\ fTools = <<>> /\ fResult = <<>>
  /\ sessionEvents = [u \in {} |-> <<>>]
  /\ addedCount = [u \in Sessions |-> 0]

(***************************************************************************)
(* POST /api/chat with the server's own tool loop (server.js):             *)
(* handleAssistantResponse and streamModelResponse.                        *)
(***************************************************************************)
Frame(event, n) == [event |-> event, n |-> n]

\* setupSse's sendEvent: two writes to the response stream
sendEvent(stream, event, n) == Append(stream, Frame(event, n))

\* lines 405-408 without the test of clientClosed
streamTokenUnguarded(stream, n) == sendEvent(stream, "delta", n)

\* lines 405-408: streamToken
streamToken(stream, n) ==
  IF clientClosed THEN stream ELSE sendEvent(stream, "delta", n)

chatFrame == <<cacheVars, turnVars, filterVars, collectorVars, execVars, storeVars, libVars>>

\* lines 384-417: a chat request arrives; the user message is pushed onto the
\* session's message list and the loop is entered
ChatRequest ==
  /\ chPc = "idle"
  /\ \E valid \in BOOLEAN :
       IF ~valid
       THEN \* lines 385-388: 400 Message is required
            /\ chPc' = "done"
            /\ chOutcome' = "rejected"
            /\ UNCHANGED sessionMessages
       ELSE /\ chPc' = "loop"
            /\ sessionMessages' = Append(sessionMessages, UserMessage)
            /\ UNCHANGED chOutcome
  /\ UNCHANGED <<clientClosed, frames, resEnded, history, chIterations, chText,
                 chCalls, chChunks, chIdx, chError, chModelCalls, chAsked>>
  /\ UNCHANGED chatFrame

\* lines 410-433: handleAssistantResponse returned
ChatSucceeds(conv, stream) ==
  /\ chPc' = "done"
  /\ chOutcome' = "returned"
  /\ chError' = ""
  /\ IF clientClosed
     THEN /\ sessionMessages' = conv
          /\ frames' = stream
          /\ UNCHANGED <<history, resEnded>>
     ELSE /\ sessionMessages' = SliceLast(conv, SessionKeep)
          /\ history' = SliceLast(SliceLast(conv, SessionKeep), MAX_MESSAGES)
          /\ frames' = sendEvent(stream, "done", Len(SliceLast(conv, SessionKeep)))
          /\ resEnded' = TRUE

\* lines 423-432: handleAssistantResponse threw
ChatFails(err, stream) ==
  /\ chPc' = "done"
  /\ chOutcome' = "threw"
  /\ chError' = err
  /\ IF clientClosed
     THEN /\ frames' = stream
          /\ UNCHANGED resEnded
     ELSE /\ frames' = sendEvent(stream, "error", 0)
          /\ resEnded' = TRUE
  /\ UNCHANGED history

\* the loop test admitting one iteration more than MAX_TOOL_ITERATIONS
ChatLoopHeadOneMore ==
  /\ chPc = "loop"
  /\ IF chIterations <= MAX_TOOL_ITERATIONS
     THEN /\ refreshTools(CoordCaller, FALSE)
          /\ chPc' = "tools-list"
          /\ UNCHANGED <<frames, resEnded, sessionMessages, history, chOutcome,
                         chError>>
     ELSE /\ ChatFails("limit", frames)
          /\ UNCHANGED sessionMessages
          /\ UNCHANGED cacheFrame
  /\ UNCHANGED <<clientClosed, chIterations, chText, chCalls, chChunks, chIdx,
                 chModelCalls, chAsked>>
  /\ UNCHANGED <<turnVars, filterVars, collectorVars, execVars, storeVars, libVars>>

\* lines 324-329: loop test, tool list requested (the two refreshTools(false)
\* calls of Promise.all share one fetch or one cache hit)
ChatLoopHead ==
  /\ chPc = "loop"
  /\ IF chIterations < MAX_TOOL_ITERATIONS
     THEN /\ refreshTools(CoordCaller, FALSE)
          /\ chPc' = "tools-list"
          /\ UNCHANGED <<frames, resEnded, sessionMessages, history, chOutcome,
                         chError>>
     ELSE \* line 381
          /\ ChatFails("limit", frames)
          /\ UNCHANGED sessionMessages
          /\ UNCHANGED cacheFrame
  /\ UNCHANGED <<clientClosed, chIterations, chText, chCalls, chChunks, chIdx,
                 chModelCalls, chAsked>>
  /\ UNCHANGED <<turnVars, filterVars, collectorVars, execVars, storeVars, libVars>>

\* server.js lines 150-153: messages.slice(-CONTEXT_MESSAGE_COUNT)
trimContext(messages) == SliceLast(messages, CONTEXT_MESSAGE_COUNT)

\* lines 155-173: the window, each message reduced to role, content, and the
\* tool_calls of assistant messages, the tool_call_id of tool messages and
\* the name; every message of a conversation has one of the
\* SUPPORTED_ROLES, so the filter keeps all and no role is rewritten
sanitizeForModel(messages) ==
  [i \in 1..Len(trimContext(messages)) |->
     LET msg == trimContext(messages)[i]
     IN [role |-> msg.role,
         content |-> msg.content,
         tool_calls |-> IF msg.role = "assistant" THEN msg.tool_calls
                        ELSE NoCalls,
         tool_call_id |-> IF msg.role = "tool" THEN msg.tool_call_id ELSE 0,
         name |-> msg.name]]

\* lines 325-336: the conversation part of the payload of a completion call
modelConversation == sanitizeForModel(sessionMessages)

\* lines 326-346 and 239: the tool list resolves, the completion is requested
ChatToolsResolved ==
  /\ chPc = "tools-list"
  /\ cpc[CoordCaller] = "resolved"
  /\ Consume(CoordCaller)
  /\ chPc' = "streaming"
  /\ chText' = 0
  /\ chCalls' = <<>>
  /\ chChunks' = 0
  /\ chModelCalls' = chModelCalls + 1
  /\ UNCHANGED <<clientClosed, frames, resEnded, sessionMessages, history,
                 chIterations, chIdx, chOutcome, chError, chAsked>>
  /\ UNCHANGED <<turnVars, filterVars, collectorVars, execVars, storeVars, libVars>>

\* lines 348-356: the assistant message is pushed; without tool calls the
\* loop returns
FinishResponse ==
  LET assistantMessage == AssistantMsg(Text("chat-response", chText), chCalls)
      conv == Append(sessionMessages, assistantMessage)
  IN IF Len(chCalls) = 0
     THEN /\ ChatSucceeds(conv, frames)
          /\ UNCHANGED chIdx
     ELSE /\ sessionMessages' = conv
          /\ chIdx' = 1
          /\ chPc' = "tools"
          /\ UNCHANGED <<frames, resEnded, history, chOutcome, chError>>

\* deltas of one chunk: a content token or a tool call
ChunkKinds == {"token", "call", "call-malformed"}

\* lines 274-299: a chunk of the completion stream arrives
ChunkArrives ==
  /\ chPc = "streaming"
  /\ chChunks < MaxChunks
  /\ IF clientClosed
     THEN \* lines 275-277: shouldStop() breaks out of the stream
          /\ FinishResponse
          /\ UNCHANGED <<chText, chCalls, chChunks, chAsked>>
     ELSE /\ \E kind \in ChunkKinds :
               IF kind = "token"
               THEN /\ chText' = chText + 1
                    /\ frames' = streamToken(frames, chText + 1)
                    /\ UNCHANGED <<chCalls, chAsked>>
               ELSE /\ chAsked < MaxChatCalls
                    /\ chAsked' = chAsked + 1
                    /\ chCalls' = Append(chCalls,
                          Call(CallId(chIterations + 1, Len(chCalls) + 1), "_fetch",
                               IF kind = "call" THEN "task-and-context"
                               ELSE "malformed"))
                    /\ UNCHANGED <<chText, frames>>
          /\ chChunks' = chChunks + 1
          /\ UNCHANGED <<chPc, resEnded, sessionMessages, history, chIdx,
                         chOutcome, chError>>
  /\ UNCHANGED <<clientClosed, chIterations, chModelCalls>>
  /\ UNCHANGED chatFrame

\* lines 274-311: the completion stream ends
StreamEnds ==
  /\ chPc = "streaming"
  /\ FinishResponse
  /\ UNCHANGED <<clientClosed, chIterations, chText, chCalls, chChunks,
                 chModelCalls, chAsked>>
  /\ UNCHANGED chatFrame

\* lines 239 and 274: the completion request or its stream fails
ChatCompletionFails ==
  /\ chPc = "streaming"
  /\ ChatFails("completion", frames)
  /\ UNCHANGED <<clientClosed, sessionMessages, chIterations, chText, chCalls,
                 chChunks, chIdx, chModelCalls, chAsked>>
  /\ UNCHANGED chatFrame

ChatCurrentCall == chCalls[chIdx]

\* lines 366-376: the tool message is pushed and its note is streamed; after
\* the last call of the response the iteration is counted
ChatToolDone(ok) ==
  /\ sessionMessages' = Append(sessionMessages,
        Msg("tool", Text(IF ok THEN "tool-result" ELSE "tool-failed",
                         ChatCurrentCall.id),
            NoCalls, ChatCurrentCall.id, "tool", ChatCurrentCall.name))
  /\ frames' = streamToken(frames, 0)
  /\ IF chIdx < Len(chCalls)
     THEN /\ chIdx' = chIdx + 1
          /\ chPc' = "tools"
          /\ UNCHANGED chIterations
     ELSE /\ chIdx' = 0
          /\ chIterations' = chIterations + 1
          /\ chPc' = "loop"
  /\ UNCHANGED <<clientClosed, resEnded, history, chText, chCalls, chChunks,
                 chOutcome, chError, chModelCalls, chAsked>>

\* lines 358-365: executeToolCall is called; malformed arguments throw before
\* any request and the error is caught
ChatStartTool ==
  /\ chPc = "tools"
  /\ IF ArgumentsParse(ChatCurrentCall)
     THEN /\ chPc' = "tool"
          /\ UNCHANGED <<clientClosed, frames, resEnded, sessionMessages, history,
                         chIterations, chText, chCalls, chChunks, chIdx,
                         chOutcome, chError, chModelCalls, chAsked>>
     ELSE ChatToolDone(FALSE)
  /\ UNCHANGED chatFrame

\* the gateway answers the tool call
ChatToolReturns ==
  /\ chPc = "tool"
  /\ ChatToolDone(TRUE)
  /\ UNCHANGED chatFrame

\* the gateway fails the tool call; the error is caught (lines 362-364)
ChatToolFails ==
  /\ chPc = "tool"
  /\ ChatToolDone(FALSE)
  /\ UNCHANGED chatFrame

\* lines 398-400: the request's close event
ClientCloses ==
  /\ chPc \notin {"idle", "done"}
  /\ ~clientClosed
  /\ clientClosed' = TRUE
  /\ UNCHANGED <<chPc, frames, resEnded, sessionMessages, history, chIterations,
                 chText, chCalls, chChunks, chIdx, chOutcome, chError,
                 chModelCalls, chAsked>>
  /\ UNCHANGED chatFrame

\* the session's messages as loaded from the history store at login
StoredConversation ==
  << Msg("user", Text("prior", 1), NoCalls, 0, "", ""),
     Msg("assistant", Text("prior", 2), NoCalls, 0, "", "") >>

InitChat ==
  /\ chPc = "idle" /\ clientClosed = FALSE /\ frames = <<>> /\ resEnded = FALSE
  /\ sessionMessages = StoredConversation
  /\ history = StoredConversation
  /\ chIterations = 0 /\ chText = 0 /\ chCalls = <<>> /\ chChunks = 0
  /\ chIdx = 0 /\ chOutcome = "none" /\ chError = ""
  /\ chModelCalls = 0 /\ chAsked = 0

(***************************************************************************)
(* toolBridge.executeToolCall({id, function: fn}) called on its own.       *)
(***************************************************************************)
\* fn.arguments: absent, the empty string, a JSON string, a string that is
\* not JSON, an object
CallArguments == {"absent", "", "task-and-context", "malformed", "object"}

\* tool calls a caller may pass; name "" stands for a missing or empty name
ToolCallInputs ==
  [hasFn : BOOLEAN, name : {"", "_fetch", "_run_js", "_create_entities"},
   arguments : CallArguments]

\* answers of POST /call-tool: a result, an HTTP error status, a failed fetch
\* whose error has a message or none
ServiceAnswers ==
  { [kind |-> "ok", status |-> 200],
    [kind |-> "http", status |-> 400],
    [kind |-> "http", status |-> 404],
    [kind |-> "http", status |-> 500],
    [kind |-> "network", status |-> 0],
    [kind |-> "network-no-message", status |-> 0] }

NoToolError == [msg |-> "", tool |-> "", status |-> 0]
ToolError(msg, tool, status) == [msg |-> msg, tool |-> tool, status |-> status]

\* lines 91-98 with a string that is not JSON taken for no arguments
ArgsParseLenient(arguments) == TRUE

\* lines 91-98: JSON.parse of a non-empty string argument
ArgsParse(arguments) ==
  IF arguments \in {"absent", "", "object"} THEN TRUE
  ELSE JsonParse(arguments).ok

\* lines 87-100: validation, argument parsing, the request is sent
CallExecuteToolCall ==
  /\ tcPc = "idle"
  /\ \E call \in ToolCallInputs :
       /\ tcCall' = call
       /\ IF ~call.hasFn \/ call.name = ""
          THEN /\ tcPc' = "done"
               /\ tcOutcome' = [kind |-> "threw",
                                error |-> ToolError("invalid-payload", "", 0)]
               /\ UNCHANGED tcRequests
          ELSE IF ~ArgsParse(call.arguments)
          THEN /\ tcPc' = "done"
               /\ tcOutcome' = [kind |-> "threw",
                                error |-> ToolError("invalid-json", call.name, 0)]
               /\ UNCHANGED tcRequests
          ELSE /\ tcPc' = "request"
               /\ tcRequests' = Append(tcRequests, call.name)
               /\ UNCHANGED tcOutcome
  /\ UNCHANGED <<cacheVars, turnVars, filterVars, collectorVars, chatVars,
                 storeVars, libVars>>

\* lines 24-35 and 100-105: the gateway's answer, or the failure of the fetch
ToolServiceAnswers ==
  /\ tcPc = "request"
  /\ \E answer \in ServiceAnswers :
       tcOutcome' =
         IF answer.kind = "ok"
         THEN [kind |-> "returned", error |-> NoToolError]
         ELSE IF answer.kind = "http"
         THEN [kind |-> "threw",
               error |-> ToolError("service-error", "", answer.status)]
         ELSE IF answer.kind = "network"
         THEN [kind |-> "threw", error |-> ToolError("network", "", 0)]
         ELSE [kind |-> "threw", error |-> ToolError("tool-failed", tcCall.name, 0)]
  /\ tcPc' = "done"
  /\ UNCHANGED <<tcCall, tcRequests>>
  /\ UNCHANGED <<cacheVars, turnVars, filterVars, collectorVars, chatVars,
                 storeVars, libVars>>

InitExec ==
  /\ tcPc = "idle"
  /\ tcCall = [hasFn |-> FALSE, name |-> "", arguments |-> "absent"]
  /\ tcOutcome = [kind |-> "none", error |-> NoToolError]
  /\ tcRequests = <<>>

(***************************************************************************)
(* lib/historyStore.js: getHistory and saveHistory on the module's cache   *)
(* object.  The cache is a plain JavaScript object, so a property read     *)
(* falls back on the object's prototype.                                   *)
(***************************************************************************)
\* property names used as user names; "" stands for null, undefined or ''
StoreNames == {"alice", "length", "__proto__"}
StoreUsernames == StoreNames \cup {""}

\* a message list of n entries
MessageList(n) == [i \in 1..n |-> i]
MessageLists ==
  { MessageList(n) : n \in {0, ShortList, MAX_MESSAGES + MaxOver} }

\* JavaScript values a property read of the cache yields
Undefined == [kind |-> "undefined", items |-> <<>>, n |-> 0]
ListValue(items) == [kind |-> "list", items |-> items, n |-> 0]
NumberValue(n) == [kind |-> "number", items |-> <<>>, n |-> n]
ObjectPrototype == [kind |-> "object", items |-> <<>>, n |-> 0]

\* cache[username]
CacheLookup(cache, username) ==
  IF username = "__proto__" THEN cache.proto
  ELSE IF username \in DOMAIN cache.own THEN ListValue(cache.own[username])
  ELSE IF cache.proto.kind = "list" /\ username = "length"
  THEN NumberValue(Len(cache.proto.items))
  ELSE Undefined

\* cache[username] = trimmed
CacheAssign(cache, username, trimmed) ==
  IF username = "__proto__"
  THEN [cache EXCEPT !.proto = ListValue(trimmed)]
  ELSE [cache EXCEPT !.own =
          [u \in DOMAIN cache.own \cup {username} |->
             IF u = username THEN trimmed ELSE cache.own[u]]]

Truthy(v) == v.kind \in {"list", "object"} \/ (v.kind = "number" /\ v.n # 0)

\* lines 47-52: getHistory(username) on a given cache; history.slice throws
\* when the value read is not an array
getHistory(cache, username) ==
  IF username = "" THEN [threw |-> FALSE, list |-> <<>>]
  ELSE LET read == CacheLookup(cache, username)
           h == IF Truthy(read) THEN read ELSE ListValue(<<>>)
       IN IF h.kind = "list"
          THEN [threw |-> FALSE, list |-> SliceLast(h.items, MAX_MESSAGES)]
          ELSE [threw |-> TRUE, list |-> <<>>]

NoCall == [op |-> "none", username |-> "", m |-> <<>>, threw |-> FALSE,
           list |-> <<>>]

\* lines 54-60 and 32-39: saveHistory(username, messages); persist writes the
\* cache's own properties and swallows a failing write
saveHistory ==
  /\ \E username \in StoreUsernames, m \in MessageLists, writeFails \in BOOLEAN :
       /\ hsLast' = [op |-> "save", username |-> username, m |-> m,
                     threw |-> FALSE, list |-> <<>>]
       /\ IF username = ""
          THEN UNCHANGED <<hsCache, hsDisk>>
          ELSE /\ hsCache' = CacheAssign(hsCache, username,
                                         SliceLast(m, MAX_MESSAGES))
               /\ hsDisk' = IF writeFails THEN hsDisk ELSE hsCache'.own
  /\ UNCHANGED <<cacheVars, turnVars, filterVars, collectorVars, chatVars,
                 execVars, libVars>>

\* getHistory(username) called
CallGetHistory ==
  /\ \E username \in StoreUsernames :
       hsLast' = [op |-> "get", username |-> username, m |-> <<>>,
                  threw |-> getHistory(hsCache, username).threw,
                  list |-> getHistory(hsCache, username).list]
  /\ UNCHANGED <<hsCache, hsDisk>>
  /\ UNCHANGED <<cacheVars, turnVars, filterVars, collectorVars, chatVars,
                 execVars, libVars>>

\* lines 8-9 and 17-23: no history file yet, the cache is {}
InitStore ==
  /\ hsCache = [own |-> [u \in {} |-> <<>>], proto |-> ObjectPrototype]
  /\ hsDisk = [u \in {} |-> <<>>]
  /\ hsLast = NoCall

(***************************************************************************)
(* The registry's objects and what its callers hold                        *)
(* (lib/agents/agentRegistry.js 9-221).                                    *)
(***************************************************************************)
ConfigIds == {"main"} \cup HelperIds

\* lines 85, 137, 192: the maxIterations fields as written in the module
ConfiguredMaxIterations(c) ==
  IF c = "main" THEN MainMaxIterations ELSE maxIterations(c)

\* one config as a reader sees it: its scalar field and its pattern array
ReadConfig(maxIter, pushed, c) ==
  [id |-> c, maxIterations |-> maxIter[c], pushedPatterns |-> pushed[c]]

\* { ...CONFIG }: a new object whose maxIterations is its own and whose
\* toolPatterns is the array of the module's config
ShallowCopyOf(c) ==
  [kind |-> "config", of |-> c, own |-> cfgMaxIter[c]]

\* lines 202-204
getMainAgentResult(maxIter, pushed) == ReadConfig(maxIter, pushed, "main")

\* lines 211-213
getHelperAgentResult(maxIter, pushed, helperId) ==
  IF getHelperAgent(helperId).kind = "config"
  THEN ReadConfig(maxIter, pushed, helperId)
  ELSE getHelperAgent(helperId)

\* lines 219-221
getAllHelpersResult(maxIter, pushed) ==
  [h \in HelperIds |-> ReadConfig(maxIter, pushed, h)]

registryFrame == <<cacheVars, turnVars, filterVars, collectorVars, chatVars,
                   execVars, storeVars, ctxVars>>

NoRegistryCall == [call |-> "none", arg |-> "", result |-> <<>>]

\* lines 202-204: getMainAgent()
CallGetMainAgent ==
  /\ held' = ShallowCopyOf("main")
  /\ regLast' = [call |-> "getMainAgent", arg |-> "",
                 result |-> getMainAgentResult(cfgMaxIter, cfgPushed)]
  /\ UNCHANGED <<cfgMaxIter, cfgPushed>>
  /\ UNCHANGED registryFrame

\* lines 211-213: getHelperAgent(helperId)
CallGetHelperAgent ==
  /\ UNCHANGED registryFrame
  /\ \E helperId \in DirectHelperIds :
       /\ held' = IF getHelperAgent(helperId).kind = "config"
                  THEN ShallowCopyOf(helperId)
                  ELSE [kind |-> "none"]
       /\ regLast' = [call |-> "getHelperAgent", arg |-> helperId,
                      result |-> getHelperAgentResult(cfgMaxIter, cfgPushed,
                                                      helperId)]
       /\ UNCHANGED <<cfgMaxIter, cfgPushed>>

\* lines 219-221: getAllHelpers(); the entries of the new map are the
\* module's config objects until the caller replaces them
CallGetAllHelpers ==
  /\ held' = [kind |-> "map", replaced |-> {}]
  /\ regLast' = [call |-> "getAllHelpers", arg |-> "",
                 result |-> getAllHelpersResult(cfgMaxIter, cfgPushed)]
  /\ UNCHANGED <<cfgMaxIter, cfgPushed>>
  /\ UNCHANGED registryFrame

\* the caller assigns maxIterations on the config it holds
CallerSetsField ==
  /\ held.kind = "config"
  /\ held.own # WrittenIterations
  /\ held' = [held EXCEPT !.own = WrittenIterations]
  /\ UNCHANGED <<cfgMaxIter, cfgPushed, regLast>>
  /\ UNCHANGED registryFrame

\* the caller pushes a pattern onto the toolPatterns of the config it holds
CallerPushesPattern ==
  /\ held.kind = "config"
  /\ cfgPushed[held.of] < MaxPush
  /\ cfgPushed' = [cfgPushed EXCEPT ![held.of] = @ + 1]
  /\ UNCHANGED <<cfgMaxIter, held, regLast>>
  /\ UNCHANGED registryFrame

\* the caller assigns maxIterations on an entry of the map it holds
CallerSetsEntryField ==
  /\ held.kind = "map"
  /\ \E h \in HelperIds \ held.replaced :
       /\ cfgMaxIter[h] # WrittenIterations
       /\ cfgMaxIter' = [cfgMaxIter EXCEPT ![h] = WrittenIterations]
  /\ UNCHANGED <<cfgPushed, held, regLast>>
  /\ UNCHANGED registryFrame

\* the caller pushes a pattern onto the toolPatterns of an entry of the map
CallerPushesEntryPattern ==
  /\ held.kind = "map"
  /\ \E h \in HelperIds \ held.replaced :
       /\ cfgPushed[h] < MaxPush
       /\ cfgPushed' = [cfgPushed EXCEPT ![h] = @ + 1]
  /\ UNCHANGED <<cfgMaxIter, held, regLast>>
  /\ UNCHANGED registryFrame

\* the caller puts another object in place of an entry of the map it holds
CallerReplacesEntry ==
  /\ held.kind = "map"
  /\ \E h \in HelperIds \ held.replaced :
       held' = [held EXCEPT !.replaced = @ \cup {h}]
  /\ UNCHANGED <<cfgMaxIter, cfgPushed, regLast>>
  /\ UNCHANGED registryFrame

\* lines 9-196: the module's configs as loaded
InitRegistry ==
  /\ cfgMaxIter = [c \in ConfigIds |-> ConfiguredMaxIterations(c)]
  /\ cfgPushed = [c \in ConfigIds |-> 0]
  /\ held = [kind |-> "none"]
  /\ regLast = NoRegistryCall

\* any sequence of registry calls and of writes through what they returned
RegistryNext ==
  \/ CallGetMainAgent
  \/ CallGetHelperAgent
  \/ CallGetAllHelpers
  \/ CallerSetsField
  \/ CallerPushesPattern
  \/ CallerSetsEntryField
  \/ CallerPushesEntryPattern
  \/ CallerReplacesEntry

(***************************************************************************)
(* The conversation context of a helper prompt                             *)
(* (lib/agents/helperExecutor.js 77-86, 161-169).                          *)
(***************************************************************************)
\* contextWindow values: the main agent's -1 (line 86 of the registry), none
\* at all, one, and the helpers' 6 and 8 (lines 138, 193)
ContextWindows == {-1, 0, 1, 6, 8}

ContextRoles == {"user", "assistant", "tool"}
ContextLens == {5, TaskPreviewLen + 1}

\* conversations: position, role and content length of each message
FreeConversations ==
  UNION { [1..n -> ContextRoles \X ContextLens] : n \in 0..MaxFreeLen }

LongConversation(n) ==
  [i \in 1..n |-> <<IF i % 2 = 1 THEN "user" ELSE "assistant", 5>>]

ContextConversations ==
  { [i \in 1..Len(c) |-> [pos |-> i, role |-> c[i][1], len |-> c[i][2]]] :
      c \in FreeConversations
            \cup { LongConversation(n) : n \in (MaxFreeLen + 1)..MaxContextLen } }

\* Array.prototype.slice(start) with one argument: a negative start counts
\* from the end, and -0 is 0
JsSlice(seq, start) ==
  LET from == IF start < 0
              THEN (IF Len(seq) + start < 0 THEN 0 ELSE Len(seq) + start)
              ELSE (IF start > Len(seq) THEN Len(seq) ELSE start)
  IN  SubSeq(seq, from + 1, Len(seq))

\* lines 161-169: one line per message, the role prefix and at most 200
\* characters of the content
formatConversationContext(messages) ==
  [i \in 1..Len(messages) |->
     [pos |-> messages[i].pos,
      who |-> IF messages[i].role = "user" THEN "User" ELSE "Assistant",
      len |-> IF messages[i].len > TaskPreviewLen THEN TaskPreviewLen
              ELSE messages[i].len]]

\* lines 78-86: the lines of the "Recent conversation" prompt, none when the
\* conversation or the slice is empty
RecentConversationLines(conv, window) ==
  IF Len(conv) > 0 /\ Len(JsSlice(conv, 0 - window)) > 0
  THEN formatConversationContext(JsSlice(conv, 0 - window))
  ELSE <<>>

\* executeHelper builds the prompt of a helper whose contextWindow is window
CallBuildContext ==
  /\ \E conv \in ContextConversations, window \in ContextWindows :
       /\ cwConv' = conv
       /\ cwWindow' = window
       /\ cwLines' = RecentConversationLines(conv, window)
  /\ cwPc' = "built"
  /\ UNCHANGED <<cacheVars, turnVars, filterVars, collectorVars, chatVars,
                 execVars, storeVars, regVars>>

InitContext ==
  /\ cwPc = "idle"
  /\ cwConv = <<>>
  /\ cwWindow = 0
  /\ cwLines = <<>>

\* the gateway answers or fails the turn's GET /tools request
TurnActive == pc \notin {"idle", "done"} \/ chPc \notin {"idle", "done"}

ToolListAnswers ==
  /\ TurnActive
  /\ \E r \in remote, payload \in TurnPayloads : FetchSucceeds(r, payload)
  /\ UNCHANGED turnVars
  /\ UNCHANGED auxVars

Next ==
  \/ StartRun
  \/ ToolListAnswers
  \/ ToolsResolved
  \/ LoopHead
  \/ ModelResponds
  \/ ModelThrows
  \/ StartDelegation
  \/ StartToolCall
  \/ ToolReturns
  \/ ToolFails
  \/ HelperToolsResolved
  \/ HelperLoopHead
  \/ HelperModelResponds
  \/ HelperModelThrows
  \/ HelperStartToolCall
  \/ HelperToolReturns
  \/ HelperToolFails
  \/ SetCancel

Init ==
  /\ InitCache /\ InitTurn /\ InitAux /\ InitChat /\ InitExec /\ InitStore
  /\ InitRegistry /\ InitContext

Spec == Init /\ [][Next]_vars

CacheSpec == Init /\ [][CacheNext]_vars

\* executeHelper called directly
HelperNext ==
  \/ CallExecuteHelper
  \/ ToolListAnswers
  \/ HelperToolsResolved
  \/ HelperLoopHead
  \/ HelperModelResponds
  \/ HelperModelThrows
  \/ HelperStartToolCall
  \/ HelperToolReturns
  \/ HelperToolFails
  \/ SetCancel

HelperSpec == Init /\ [][HelperNext]_vars

\* handleRequest runs and direct executeHelper runs whose awaited operations
\* all settle: every step other than the start of a run and the cancel
\* signal is a continuation the event loop runs once its await has settled
LiveNext ==
  \/ StartRun
  \/ CallExecuteHelper
  \/ ToolListAnswers
  \/ ToolsResolved
  \/ LoopHead
  \/ ModelResponds
  \/ ModelThrows
  \/ StartDelegation
  \/ StartToolCall
  \/ ToolReturns
  \/ ToolFails
  \/ HelperToolsResolved
  \/ HelperLoopHead
  \/ HelperModelResponds
  \/ HelperModelThrows
  \/ HelperStartToolCall
  \/ HelperToolReturns
  \/ HelperToolFails
  \/ SetCancel

RunStep ==
  \/ ToolListAnswers
  \/ ToolsResolved
  \/ LoopHead
  \/ ModelResponds
  \/ ModelThrows
  \/ StartDelegation
  \/ StartToolCall
  \/ ToolReturns
  \/ ToolFails
  \/ HelperToolsResolved
  \/ HelperLoopHead
  \/ HelperModelResponds
  \/ HelperModelThrows
  \/ HelperStartToolCall
  \/ HelperToolReturns
  \/ HelperToolFails

LiveSpec == Init /\ [][LiveNext]_vars /\ WF_vars(RunStep)

\* executeToolCall applied to bounded calls
ToolCallNext == CallExecuteToolCall \/ ToolServiceAnswers

ToolCallSpec == Init /\ [][ToolCallNext]_vars

\* the history store under any sequence of saves and reads
StoreNext == saveHistory \/ CallGetHistory

StoreSpec == Init /\ [][StoreNext]_vars

\* the cache with a gateway that answers or fails every request it is sent
GatewayCompletes == GatewayAnswers \/ GatewayFails

CacheLiveSpec == Init /\ [][CacheNext]_vars /\ WF_vars(GatewayCompletes)

RegistrySpec == Init /\ [][RegistryNext]_vars

\* the helper prompt's conversation context for bounded conversations
ContextSpec == Init /\ [][CallBuildContext]_vars

\* filterToolsForAgent applied to bounded inputs
FilterSpec == Init /\ [][CallFilterTools]_vars

\* the debug event collector under any sequence of calls
CollectorNext == addEvent \/ clearEvents

CollectorSpec == Init /\ [][CollectorNext]_vars

\* one chat turn of the server's own loop
ChatNext ==
  \/ ChatRequest
  \/ ChatLoopHead
  \/ ToolListAnswers
  \/ ChatToolsResolved
  \/ ChunkArrives
  \/ StreamEnds
  \/ ChatCompletionFails
  \/ ChatStartTool
  \/ ChatToolReturns
  \/ ChatToolFails
  \/ ClientCloses

ChatSpec == Init /\ [][ChatNext]_vars

(***************************************************************************)
(* Properties of the tool directory cache (checked under CacheSpec).       *)
(***************************************************************************)
CacheIsFresh == Len(cachedTools) # 0 /\ clock - cacheFetchedAt < TOOL_CACHE_TTL_MS

OneFetchOutstanding == Cardinality(remote) <= 1

\* a call arriving while a request is outstanding sends none of its own and,
\* unless it is served from the cache, awaits the outstanding request
CoalesceStep ==
  \A p \in Callers :
    (cpc[p] = "idle" /\ cpc'[p] # "idle" /\ remote # {}) =>
      /\ remote' = remote
      /\ cpc'[p] = "awaiting" => \E r \in remote : cawait'[p] = r.owner

\* when a request completes, all callers awaiting it resolve with its result
SharedResult ==
  \A r \in remote :
    r \notin remote' =>
      \A q \in Callers :
        (cpc[q] = "awaiting" /\ cawait[q] = r.owner) =>
          /\ cpc'[q] = "resolved"
          /\ cpc'[r.owner] = "resolved"
          /\ cres'[q] = cres'[r.owner]

\* C1: at most one remote tool-list fetch is outstanding at any moment; a
\* refreshTools call made while one is outstanding issues no request of its
\* own and resolves with the outstanding fetch's result.
C1_Coalescing ==
  []OneFetchOutstanding /\ [][CoalesceStep /\ SharedResult]_vars

\* all callers called refreshTools(true) during one pending forced fetch (the
\* cache is fresh, so none of them would have waited without force)
C1_Witness ==
  /\ CacheIsFresh
  /\ Cardinality(remote) = 1
  /\ \A p \in Callers : cpc[p] = "awaiting"
  /\ \E r \in remote : r.force /\ \A p \in Callers : cawait[p] = r.owner

\* C7 (as stated): after a successful fetch, with any descriptor set including
\* an empty one, a refreshTools(false) call made within the TTL returns the
\* cached set and issues no remote fetch.
C7_CacheHit ==
  [][\A p \in Callers :
       (refreshTools(p, FALSE) /\ everGood
          /\ clock - lastGoodAt < TOOL_CACHE_TTL_MS) =>
         /\ remote' = remote
         /\ cpc'[p] = "resolved"
         /\ cres'[p] = lastGood]_vars

\* C8: when a remote fetch fails, refreshTools does not reject; it resolves
\* with the last successfully fetched descriptor set, unchanged, if there is
\* one, and with an empty list otherwise (forced refreshes included).
C8_StaleOnFailure ==
  [][\A q \in Callers :
       (cpc[q] = "awaiting" /\ cpc'[q] # "awaiting" /\ cvia'[q] = "fail") =>
         /\ cpc'[q] = "resolved"
         /\ cres'[q] = (IF everGood THEN lastGood ELSE <<>>)
         /\ cachedTools' = cachedTools
         /\ lastGood' = lastGood]_vars

\* a forced refresh (the cache is fresh) failed and resolved with the warm cache
C8_Witness ==
  /\ CacheIsFresh
  /\ \E q \in Callers :
       cpc[q] = "resolved" /\ cvia[q] = "fail" /\ Len(cres[q]) > 0

(***************************************************************************)
(* Properties of one turn of the coordinator (checked under Spec).         *)
(***************************************************************************)
Last(seq) == seq[Len(seq)]

HelperErrorMsg(m, id) ==
  m.role = "tool" /\ m.tool_call_id = id /\ m.content.kind = "helper-error"

\* C2: in any run of handleRequest the coordinator's own loop invokes the
\* completion service at most maxIterations times.
C2_AtMostMaxIterations == modelCalls <= MainMaxIterations

\* a run that used up all its completion calls
C2_Witness == pc = "done" /\ modelCalls = MainMaxIterations

\* C3 (as stated): when the loop uses up maxIterations completion calls and
\* the last response still carries tool calls, handleRequest reports a failure
\* of the turn and never returns an ordinary result.
C3_BudgetExceededReported ==
  (pc = "done" /\ modelCalls = MainMaxIterations /\ Len(finalToolCalls) > 0)
    => outcome # "returned"

\* C4 (as stated): a failing ordinary tool call does not abort the turn;
\* handleRequest does not throw and the returned messages carry a tool result
\* with the error for that call's id.
C4_ToolFailureWrapped ==
  \A id \in failedCalls :
    /\ outcome # "threw"
    /\ outcome = "returned" =>
         \E i \in 1..Len(result.messages) :
           result.messages[i].role = "tool" /\ result.messages[i].tool_call_id = id

\* the step in which a helper run fails appends the error as the tool result
\* of the delegation call and the coordinator goes on
HelperFailureStep ==
  \A id \in failedDelegs' \ failedDelegs :
    /\ outcome' = "none"
    /\ pc' \in {"tools", "loop"}
    /\ pc' = "tools" =>
         /\ tidx' = tidx + 1
         /\ toolResults' # <<>> /\ HelperErrorMsg(Last(toolResults'), id)
         /\ Len(toolResults') = Len(toolResults) + 1
    /\ pc' = "loop" =>
         /\ HelperErrorMsg(Last(currentMessages'), id)
         /\ Len(currentMessages') = Len(currentMessages) + Len(toolResults) + 2

HelperFailureInResult ==
  /\ error # "helper"
  /\ outcome = "returned" =>
       \A id \in failedDelegs :
         Cardinality({ i \in 1..Len(result.messages) :
                         result.messages[i].tool_call_id = id }) = 1
         /\ \E i \in 1..Len(result.messages) :
              HelperErrorMsg(result.messages[i], id)

\* C5: a failing helper run does not abort the turn: one tool-result message
\* with the delegation call's id carries the error, the remaining tool calls
\* and the next iteration follow, and handleRequest does not throw because
\* of it.
C5_HelperFailureRecovered ==
  []HelperFailureInResult /\ [][HelperFailureStep]_vars

\* a helper failed, the loop went on to a later completion call and returned
C5_Witness ==
  /\ outcome = "returned"
  /\ failedDelegs # {}
  /\ modelCalls >= 2
  /\ Len(finalToolCalls) = 0

NoToolCallsStep ==
  (pc = "model" /\ pc' # "model" /\ outcome' # "threw"
     /\ Len(finalToolCalls') = 0) =>
    /\ pc' = "done"
    /\ outcome' = "returned"
    /\ currentMessages' =
         Append(currentMessages, AssistantMsg(finalContent', NoCalls))
    /\ Last(result'.messages) = AssistantMsg(finalContent', NoCalls)
    /\ Len(result'.messages) =
         Len(currentMessages) + 1 - Len(mainAgentMessages(conversation))

NothingAfterDone == pc # "done"

FirstResponseFinal ==
  (pc = "done" /\ outcome = "returned" /\ modelCalls = 1
     /\ Len(finalToolCalls) = 0) =>
    /\ result.messages = <<AssistantMsg(Text("response", 1), NoCalls)>>
    /\ \A i \in 1..Len(sent) : sent[i].type \notin
         {"helper-spawn", "helper-complete", "helper-error", "tool-execution"}
    /\ \A i \in 1..Len(debugLog) : debugLog[i].type \notin
         {"helper-spawn", "helper-complete", "helper-error", "tool-execution"}
    /\ gatewayCalls = 0 /\ helperRuns = 0

\* C6: a response without tool calls ends the loop at that iteration: it is
\* appended as the final assistant message and no further completion call,
\* tool invocation or helper run is started; on the first response the
\* returned messages are that one message and no helper or tool event exists.
C6_NoToolCallsTerminates ==
  /\ []FirstResponseFinal
  /\ [][NoToolCallsStep /\ NothingAfterDone]_vars

\* the first response carries no tool calls, with debug events enabled
C6_Witness ==
  /\ pc = "done" /\ outcome = "returned"
  /\ modelCalls = 1 /\ Len(finalToolCalls) = 0
  /\ debug /\ Len(debugLog) = 1

\* C9 (as stated): cancellation is never an error; a cancelled run of
\* handleRequest, the completion service not failing, returns normally.
C9_CancelNeverThrows ==
  (pc = "done" /\ cancel /\ error # "completion") => outcome = "returned"

\* C10 (as stated): once the cancel predicate is true, no completion call,
\* tool invocation or helper delegation is started in that run.
C10_NoNewWorkAfterCancel ==
  [][cancel =>
       /\ modelCalls' = modelCalls
       /\ hModelCalls' = hModelCalls
       /\ gatewayCalls' = gatewayCalls
       /\ helperRuns' = helperRuns]_vars

(***************************************************************************)
(* Events, messages and tool results of one turn (checked under Spec).     *)
(***************************************************************************)
CallsOf(msgs) ==
  UNION { { msgs[i].tool_calls[j] : j \in 1..Len(msgs[i].tool_calls) } :
          i \in 1..Len(msgs) }

\* delegation calls of the responses whose tool calls have all been handled
PastDelegations == { c \in CallsOf(currentMessages) : IsDelegation(c.name) }

\* delegation calls of the current response already handled, and the one
\* whose helper is running
DoneDelegations ==
  IF tidx = 0 THEN PastDelegations
  ELSE PastDelegations \cup
       { finalToolCalls[i] : i \in { j \in 1..(tidx - 1) :
                                       IsDelegation(finalToolCalls[j].name) } }

RunningDelegations == IF pc = "helper" THEN {CurrentCall} ELSE {}

IsSpawn(e, id) == e.type = "helper-spawn" /\ e.n = id
IsTerminal(e, id) == e.type \in {"helper-complete", "helper-error"} /\ e.n = id
Positions(sink, Is(_, _), id) == { i \in 1..Len(sink) : Is(sink[i], id) }

\* one spawn event, then one terminal event once the helper run is over
SpawnThenTerminal(sink) ==
  /\ \A c \in DoneDelegations :
       /\ Cardinality(Positions(sink, IsSpawn, c.id)) = 1
       /\ Cardinality(Positions(sink, IsTerminal, c.id)) = 1
       /\ \A i \in Positions(sink, IsSpawn, c.id),
             j \in Positions(sink, IsTerminal, c.id) : i < j
  /\ \A c \in RunningDelegations :
       /\ Cardinality(Positions(sink, IsSpawn, c.id)) = 1
       /\ Positions(sink, IsTerminal, c.id) = {}
  /\ \A i \in 1..Len(sink) :
       sink[i].type \in {"helper-spawn", "helper-complete", "helper-error"} =>
         \E c \in DoneDelegations \cup RunningDelegations : c.id = sink[i].n

\* the spawn events of a sink carry Carried(task of the call)
SpawnCarries(sink, Carried(_)) ==
  \A c \in DoneDelegations \cup RunningDelegations :
    TaskOf(c.arguments).defined =>
      \A i \in Positions(sink, IsSpawn, c.id) :
        sink[i].task = Carried(TaskOf(c.arguments))

WholeTask(task) == task
TaskPreview(task) == Substring(task, TaskPreviewLen)

\* a completion call is outstanding only when no delegation is unfinished
DelegationsBeforeNextCall == pc = "model" => tidx = 0 /\ hpc = "none"

\* C11 (as stated): with debug events enabled every delegation call with a
\* task T leaves exactly one helper-spawn event carrying T and then exactly
\* one terminal event on each event sink, before the next completion call.
C11_SpawnCarriesTaskOnEachSink ==
  debug =>
    /\ SpawnThenTerminal(sent) /\ SpawnThenTerminal(debugLog)
    /\ DelegationsBeforeNextCall
    /\ SpawnCarries(sent, WholeTask) /\ SpawnCarries(debugLog, WholeTask)

\* C11 (amended): as C11, the helper-spawn event of the push stream carrying
\* T and the one of the debug log carrying the first TaskPreviewLen
\* characters of T.
C11_SpawnThenTerminal ==
  debug =>
    /\ SpawnThenTerminal(sent) /\ SpawnThenTerminal(debugLog)
    /\ DelegationsBeforeNextCall
    /\ SpawnCarries(sent, WholeTask) /\ SpawnCarries(debugLog, TaskPreview)

\* a finished turn with a completed delegation of a long task, debug enabled
C11_Witness ==
  /\ debug /\ outcome = "returned"
  /\ \E c \in PastDelegations : TaskOf(c.arguments).len > TaskPreviewLen
  /\ \E i \in 1..Len(sent) : sent[i].type = "helper-complete"

ToolMessagesFor(msgs, id) ==
  { i \in 1..Len(msgs) : msgs[i].role = "tool" /\ msgs[i].tool_call_id = id }

\* C12: in the message list handleRequest returns, every tool message
\* answers a tool call of a preceding assistant message of the list, and
\* every tool call of an assistant message has exactly one tool message
\* answering it.
C12_ToolMessagesPaired ==
  (pc = "done" /\ outcome = "returned") =>
    LET m == result.messages
    IN /\ \A i \in 1..Len(m) :
            m[i].role = "tool" =>
              \E j \in 1..(i - 1) :
                /\ m[j].role = "assistant"
                /\ \E k \in 1..Len(m[j].tool_calls) :
                     m[j].tool_calls[k].id = m[i].tool_call_id
       /\ \A c \in CallsOf(m) : Cardinality(ToolMessagesFor(m, c.id)) = 1

\* a returned list with two responses that carried tool calls
C12_Witness ==
  /\ pc = "done" /\ outcome = "returned"
  /\ Cardinality({ i \in 1..Len(result.messages) :
                     Len(result.messages[i].tool_calls) > 0 }) >= 2
  /\ Cardinality(CallsOf(result.messages)) >= 3

\* C13: for every assistant response with tool calls c1..ck the k tool-result
\* messages follow that assistant message directly, in the order c1..ck.
C13_ResultsInCallOrder ==
  /\ \A j \in 1..Len(currentMessages) :
       \A q \in 1..Len(currentMessages[j].tool_calls) :
         /\ j + q <= Len(currentMessages)
         /\ currentMessages[j + q].role = "tool"
         /\ currentMessages[j + q].tool_call_id = currentMessages[j].tool_calls[q].id
  /\ \A q \in 1..Len(toolResults) :
       /\ toolResults[q].role = "tool"
       /\ toolResults[q].tool_call_id = finalToolCalls[q].id

\* a response with an ordinary call followed by a delegation call, both answered
C13_Witness ==
  \E j \in 1..Len(currentMessages) :
    /\ Len(currentMessages[j].tool_calls) = 2
    /\ ~IsDelegation(currentMessages[j].tool_calls[1].name)
    /\ IsDelegation(currentMessages[j].tool_calls[2].name)

\* messages only a helper builds: its prompts, its assistant turns and the
\* results of its own tool calls (which carry no origin)
IsHelperPrivate(m) ==
  \/ m.content.kind \in {"helper-prompt", "coordinator-context",
                         "recent-conversation", "task"}
  \/ m.role = "assistant" /\ m.content.kind = "helper-response"
  \/ m.role = "tool" /\ m.origin = ""

NoHelperMessageIn(msgs) == \A i \in 1..Len(msgs) : ~IsHelperPrivate(msgs[i])

HelperContributesOneMessage ==
  /\ NoHelperMessageIn(currentMessages)
  /\ NoHelperMessageIn(toolResults)
  /\ NoHelperMessageIn(result.messages)
  /\ \A c \in DoneDelegations :
       LET all == currentMessages \o toolResults
       IN /\ Cardinality({ i \in 1..Len(all) : all[i].tool_call_id = c.id }) = 1
          /\ \A i \in ToolMessagesFor(all, c.id) :
               /\ all[i].origin = "helper-agent"
               /\ all[i].content.kind \in
                    {"helper-response", "helper-default", "helper-error"}

HelperRunStep ==
  pc = "helper" =>
    /\ conversation' = conversation
    /\ pc' = "helper" => UNCHANGED <<currentMessages, toolResults>>
    /\ pc' # "helper" =>
         Len(currentMessages') + Len(toolResults') \in
           { Len(currentMessages) + Len(toolResults) + 1,
             Len(currentMessages) + Len(toolResults) + 2 }

\* C14: a helper run contributes exactly one message to the coordinator's
\* working conversation, the tool result with its final content or error;
\* none of the helper's own messages appears there or in the result, and the
\* conversation passed in is left unchanged.
C14_HelperEphemeral == []HelperContributesOneMessage /\ [][HelperRunStep]_vars

\* a helper that made a tool call of its own has returned and the turn ended
C14_Witness ==
  /\ pc = "done" /\ outcome = "returned"
  /\ hCallsAsked > 0
  /\ \E i \in 1..Len(result.messages) :
       /\ result.messages[i].origin = "helper-agent"
       /\ result.messages[i].content.kind = "helper-response"

\* C15: every tool invocation a helper run sends to the gateway targets a
\* tool whose name matches at least one pattern of that helper.
C15_HelperCallsOnlyItsTools ==
  [][(InHelper /\ gatewayCalls' > gatewayCalls) =>
       MatchesSome(getHelperAgent(hId), HelperCurrentCall.name)]_vars

\* C16: in a helper run the number of completion calls and the returned
\* iteration count are both at most the helper's maxIterations.
C16_HelperAtMostMaxIterations ==
  /\ (pc = "direct" /\ hId \in HelperIds) =>
       /\ hModelCalls <= maxIterations(hId)
       /\ hIteration <= maxIterations(hId)
  /\ (pc = "direct" /\ hId \notin HelperIds) => hModelCalls = 0
  /\ (pc = "done" /\ outcome = "returned" /\ result.helperId \in HelperIds) =>
       /\ hModelCalls <= maxIterations(result.helperId)
       /\ result.iterations <= maxIterations(result.helperId)
  /\ (pc = "done" /\ outcome = "returned" /\ result.helperId \notin HelperIds) =>
       /\ hModelCalls = 0
       /\ result.iterations = 0

\* every response of the run carried a tool call and the run ended on its budget
C16_Witness ==
  /\ pc = "done" /\ outcome = "returned"
  /\ result.helperId = "research"
  /\ result.iterations = ResearchMaxIterations
  /\ hModelCalls = ResearchMaxIterations
  /\ hCallsAsked = ResearchMaxIterations

\* C17: executeHelper called with a helper id that is not in the registry
\* goes no further than the lookup: it fetches no tool list and starts no run.
C17_UnknownHelperRejected ==
  [][((pc = "idle" /\ pc' = "direct") \/ refreshCalls' > refreshCalls) =>
       hId' \in HelperIds]_vars

PatternNames(id) ==
  { toolPatterns(getHelperAgent(id))[i] :
      i \in 1..Len(toolPatterns(getHelperAgent(id))) }

\* positions of the input whose tool name one of the config's patterns matches
KeptPositions ==
  { i \in 1..Len(fTools) :
      /\ fConfig.kind = "config"
      /\ fTools[i].name \in PatternNames(fConfig.id) }

NthKept(q) ==
  CHOOSE i \in KeptPositions : Cardinality({ j \in KeptPositions : j <= i }) = q

OnlyResearch == PatternNames("research") \ PatternNames("code")
OnlyCode == PatternNames("code") \ PatternNames("research")

\* C18: filterToolsForAgent returns exactly the descriptors whose name matches
\* at least one pattern of the config, in input order, and nothing for a null
\* config; a research-only tool never appears in the code helper's list and a
\* code-only tool never in the research helper's.
C18_FilterExact ==
  fConfig.kind # "none" =>
    /\ Len(fResult) = Cardinality(KeptPositions)
    /\ \A q \in 1..Len(fResult) : fResult[q] = fTools[NthKept(q)]
    /\ fConfig.kind = "null" => fResult = <<>>
    /\ \A q \in 1..Len(fResult) :
         /\ (fConfig.kind = "config" /\ fConfig.id = "code") =>
              fResult[q].name \notin OnlyResearch
         /\ (fConfig.kind = "config" /\ fConfig.id = "research") =>
              fResult[q].name \notin OnlyCode

\* the code helper's filter met a shared tool, a research-only tool and a tool
\* of its own, and kept the first and the last in their order
C18_Witness ==
  /\ fConfig.kind = "config" /\ fConfig.id = "code"
  /\ Len(fTools) = 3 /\ Len(fResult) = 2
  /\ fTools[1].name = "_create_entities"
  /\ fTools[2].name \in OnlyResearch
  /\ fTools[3].name \in OnlyCode

Min(a, b) == IF a <= b THEN a ELSE b

\* the log of a session holds the last Min(n, 500) of the n events added to it
\* since it was last cleared, oldest first
RetainsNewest(s) ==
  LET n == addedCount[s]
      log == getEvents(s)
  IN /\ Len(log) = Min(n, MAX_EVENTS_PER_SESSION)
     /\ \A i \in 1..Len(log) : log[i] = Event(n - Len(log) + i)

\* C19: after any sequence of addEvent and clearEvents calls each session's
\* log holds at most 500 events, the most recently added ones in the order
\* they were added; right after clearEvents(s), getEvents(s) is empty.
C19_BoundedNewestFirstOut ==
  /\ \A s \in Sessions :
       /\ Len(getEvents(s)) <= MAX_EVENTS_PER_SESSION
       /\ RetainsNewest(s)
       /\ addedCount[s] = 0 => getEvents(s) = <<>>
  /\ getEvents("") = <<>>

\* a session took more events than the cap, so the oldest ones were evicted
C19_Witness ==
  \E s \in Sessions :
    /\ addedCount[s] = MAX_EVENTS_PER_SESSION + 2
    /\ Len(getEvents(s)) = MAX_EVENTS_PER_SESSION
    /\ getEvents(s)[1] = Event(3)

\* nothing is written to a connection marked closed, and its stream is not ended
SilentOnceClosed ==
  clientClosed => (frames' = frames /\ resEnded' = resEnded)

\* the close event only sets the mark: the loop stays where it is
ClosureLeavesLoopAlone ==
  (~clientClosed /\ clientClosed') => UNCHANGED <<chPc, chOutcome, chError>>

\* the turn fails only on a failed completion or on the tool iteration limit
FailsOnlyOnItsOwn ==
  (chOutcome # "threw" /\ chOutcome' = "threw") =>
    \/ chPc = "streaming" /\ chError' = "completion"
    \/ chPc = "loop" /\ chIterations = MAX_TOOL_ITERATIONS /\ chError' = "limit"

\* C20: once the connection is marked closed no further frame (delta, done or
\* error) is written to its stream for the rest of the turn, and the closure
\* never makes the turn's loop fail.
C20_NoFrameAfterClose ==
  [][SilentOnceClosed /\ ClosureLeavesLoopAlone /\ FailsOnlyOnItsOwn]_vars

NoteFrames == { i \in 1..Len(frames) : frames[i].event = "delta" /\ frames[i].n = 0 }
ToolMessages == { i \in 1..Len(sessionMessages) : sessionMessages[i].role = "tool" }

\* the connection closed during the turn, a tool finished afterwards without
\* its note being written, and the turn returned without a done frame
C20_Witness ==
  /\ clientClosed /\ chPc = "done" /\ chOutcome = "returned"
  /\ Len(frames) > 0
  /\ Cardinality(ToolMessages) > Cardinality(NoteFrames)
  /\ \A i \in 1..Len(frames) : frames[i].event = "delta"
  /\ ~resEnded

\* C21: when a completion call fails the turn ends with an error frame for
\* the client and nothing of the turn is committed: the session's messages and
\* the persisted history are those from before the turn.
C21_FailedTurnCommitsNothing ==
  (chPc = "done" /\ chOutcome = "threw" /\ chError = "completion") =>
    /\ sessionMessages = StoredConversation
    /\ history = StoredConversation
    /\ ~clientClosed => (Len(frames) > 0 /\ Last(frames).event = "error")

\* C23: normalization drops every entry that is not an object and every entry
\* missing a name, so every cached descriptor is a descriptor with a name.
C23_CachedDescriptorsNamed ==
  \A i \in 1..Len(cachedTools) :
    /\ cachedTools[i].kind = "tool"
    /\ cachedTools[i].name # "absent"

\* C22: executeToolCall rejects a call without a tool name, and rejects string
\* arguments that are not JSON with an error naming the tool; in both cases no
\* request goes to the gateway; a remote failure is a different error, which
\* carries the HTTP status.
C22_RejectsBeforeRequest ==
  tcPc # "idle" =>
    /\ (~tcCall.hasFn \/ tcCall.name = "") =>
         /\ tcOutcome.kind = "threw"
         /\ tcOutcome.error.msg = "invalid-payload"
         /\ tcRequests = <<>>
    /\ (tcCall.hasFn /\ tcCall.name # "" /\ tcCall.arguments = "malformed") =>
         /\ tcOutcome.kind = "threw"
         /\ tcOutcome.error.msg = "invalid-json"
         /\ tcOutcome.error.tool = tcCall.name
         /\ tcRequests = <<>>
    /\ tcOutcome.error.msg = "service-error" =>
         /\ tcOutcome.error.status \in 400..599
         /\ tcRequests = <<tcCall.name>>
    /\ tcOutcome.error.msg = "invalid-json" => tcOutcome.error.status = 0

\* a named call with arguments that are not JSON was rejected
C22_Witness ==
  /\ tcPc = "done"
  /\ tcCall.hasFn /\ tcCall.name = "_fetch" /\ tcCall.arguments = "malformed"
  /\ tcOutcome.kind = "threw"

\* a save by one user: that user then reads the last MAX_MESSAGES entries of
\* the list, every other user reads what they read before
SaveStep ==
  (hsLast'.op = "save" /\ hsLast' # hsLast) =>
    LET u == hsLast'.username
        m == hsLast'.m
    IN /\ ~hsLast'.threw
       /\ u = "" => UNCHANGED <<hsCache, hsDisk>>
       /\ u # "" => getHistory(hsCache', u) =
                      [threw |-> FALSE, list |-> SliceLast(m, MAX_MESSAGES)]
       /\ \A v \in StoreNames \ {u} :
            getHistory(hsCache', v) = getHistory(hsCache, v)

\* C26: saveHistory(username, m) followed by getHistory(username) returns the
\* last MAX_MESSAGES entries of m in order; a save leaves every other user's
\* history unchanged; without a username saveHistory writes nothing and
\* getHistory returns an empty list; saveHistory never throws.
C26_SaveThenGet ==
  /\ [][SaveStep]_vars
  /\ [](getHistory(hsCache, "") = [threw |-> FALSE, list |-> <<>>])

\* delegations announced on the push stream whose terminal event is yet to come
OpenSpawns ==
  { id \in { sent[i].n : i \in Positions(sent, LAMBDA e, x : e.type = "helper-spawn", 0) } :
      Positions(sent, IsTerminal, id) = {} }

\* a step that starts a completion call, a tool invocation, a helper run or a
\* tool-list fetch is taken only when nothing the turn started is outstanding
StartsWhenNothingOutstanding ==
  (\/ modelCalls' > modelCalls \/ hModelCalls' > hModelCalls
   \/ gatewayCalls' > gatewayCalls \/ helperRuns' > helperRuns
   \/ refreshCalls' > refreshCalls) =>
    /\ pc \notin {"model", "tool", "refresh"}
    /\ hpc \notin {"model", "tool", "refresh"}
    /\ pc = "helper" => (helperRuns' = helperRuns /\ modelCalls' = modelCalls)

\* while a helper run is in progress the coordinator starts nothing
NothingBesideHelper ==
  (hpc # "none" /\ hpc' # "none") =>
    /\ modelCalls' = modelCalls
    /\ helperRuns' = helperRuns
    /\ gatewayCalls' > gatewayCalls => (pc = "helper" /\ hpc = "tools")

C25_IterationsAreCompletionCalls ==
  (pc = "done" /\ outcome = "returned" /\ "messages" \in DOMAIN result) =>
    result.iterations = modelCalls

IterationEvents == SelectSeq(debugLog, LAMBDA e : e.type = "main-iteration")

\* the tool calls of the response of iteration i
ResponseOf(i) ==
  LET own == SelectSeq(newMessages(conversation, currentMessages),
                       LAMBDA m : m.role = "assistant")
  IN IF i <= Len(own) THEN own[i].tool_calls ELSE finalToolCalls

\* the iteration an event was produced in
IterationOf(e) == IF e.type = "main-iteration" THEN e.n ELSE e.n \div 10

\* completion calls of the coordinator that have come back with a response
ResponsesReceived ==
  modelCalls - (IF pc = "model" \/ (pc = "done" /\ error = "completion")
                THEN 1 ELSE 0)

IterationEventsInOrder ==
  /\ \A i \in 1..Len(IterationEvents) :
       /\ IterationEvents[i].n = i
       /\ IterationEvents[i].k = Len(ResponseOf(i))
  /\ \A p \in 1..Len(debugLog) : \A q \in p..Len(debugLog) :
       IterationOf(debugLog[p]) <= IterationOf(debugLog[q])

\* C27: under the assumption that every completion call, tool invocation and
\* tool-list fetch settles, every handleRequest run and every executeHelper
\* run that has started eventually ends, by a return or by a throw
C27_RunsEnd == (pc \notin {"idle", "done"}) ~> (pc = "done")

\* a handleRequest run whose every completion response carried tool calls
\* has ended after MainMaxIterations completion calls
C27_Witness ==
  /\ pc = "done" /\ outcome = "returned"
  /\ hpc = "none"
  /\ modelCalls = MainMaxIterations
  /\ Len(finalToolCalls) > 0
  /\ callsAsked >= MainMaxIterations

\* C28 as stated: with debug events on, every completion call of the
\* coordinator is followed by exactly one iteration event with the
\* iteration's number and tool-call count, numbered 1, 2, ... in order, and
\* the events of iteration N precede those of iteration N+1 in the log.
C28_OneEventPerCompletionCall ==
  (debug /\ pc \notin {"idle", "refresh", "model"}) =>
    /\ Len(IterationEvents) = modelCalls
    /\ IterationEventsInOrder

\* C28, amended: every completion call that comes back with a response is
\* followed by exactly one iteration event; a call that fails is followed by
\* none.
C28_OneEventPerResponse ==
  /\ debug => /\ Len(IterationEvents) = ResponsesReceived
              /\ IterationEventsInOrder
  /\ ~debug => debugLog = <<>>

\* two iterations with a tool event and helper events before the second
\* iteration event
C28_Witness ==
  /\ debug /\ Len(IterationEvents) = 2
  /\ \E p \in 1..Len(debugLog) : \E q \in 1..Len(debugLog) :
       /\ debugLog[p].type = "tool-execution"
       /\ debugLog[q].type = "helper-complete"
       /\ IterationOf(debugLog[p]) = 1 /\ IterationOf(debugLog[q]) = 1

\* ordinary tool calls whose execution is over, with a result or an error
ExecutedOrdinary ==
  { c \in CallsOf(currentMessages) : ~IsDelegation(c.name) }
  \cup (IF tidx = 0 THEN {}
        ELSE { finalToolCalls[j] : j \in { i \in 1..(tidx - 1) :
                                   ~IsDelegation(finalToolCalls[i].name) } })
  \cup (IF pc = "done" /\ error = "tool" THEN {CurrentCall} ELSE {})

ToolEvents == SelectSeq(debugLog, LAMBDA e : e.type = "tool-execution")

\* one tool-execution event, naming the tool, per executed ordinary call and
\* no other tool-execution event
OneEventPerToolCall ==
  debug =>
    /\ Len(ToolEvents) = Cardinality(ExecutedOrdinary)
    /\ \A c \in ExecutedOrdinary :
         \E i \in 1..Len(ToolEvents) :
           ToolEvents[i].n = c.id /\ ToolEvents[i].h = c.name
    /\ \A i \in 1..Len(ToolEvents) : ~IsDelegation(ToolEvents[i].h)

\* the only tool call of a response, an ordinary one, has just succeeded
OneCallSucceeds ==
  /\ pc = "tool" /\ Len(finalToolCalls) = 1 /\ pc' = "loop"

\* its result is appended right after the assistant message
ResultAppended ==
  OneCallSucceeds =>
    /\ Len(currentMessages') = Len(currentMessages) + 2
    /\ currentMessages'[Len(currentMessages) + 1].role = "assistant"
    /\ currentMessages'[Len(currentMessages) + 1].tool_calls = finalToolCalls
    /\ currentMessages'[Len(currentMessages) + 2].role = "tool"
    /\ currentMessages'[Len(currentMessages) + 2].tool_call_id = finalToolCalls[1].id

\* the loop is at its head after a response whose one ordinary call succeeded
AfterOneCall ==
  /\ pc = "loop" /\ iteration >= 1
  /\ Len(finalToolCalls) = 1 /\ ~IsDelegation(finalToolCalls[1].name)

\* C29 as stated: one tool-execution event per ordinary tool call executed and
\* none for delegation calls; after a response with one successful ordinary
\* tool call one tool-result message with its id is appended and exactly one
\* further completion call follows.
C29_OneFurtherCall ==
  /\ []OneEventPerToolCall
  /\ [][ResultAppended]_vars
  /\ [][AfterOneCall => (modelCalls' = modelCalls + 1 /\ pc' = "model")]_vars

\* C29, amended: the further completion call follows unless the iteration
\* budget is used up or the run was cancelled; the run then returns.
C29_OneFurtherCallWithinBudget ==
  /\ []OneEventPerToolCall
  /\ [][ResultAppended]_vars
  /\ [][AfterOneCall =>
          IF iteration < MainMaxIterations /\ ~cancel
          THEN modelCalls' = modelCalls + 1 /\ pc' = "model"
          ELSE modelCalls' = modelCalls /\ pc' = "done" /\ outcome' = "returned"]_vars

\* a successful and a failed ordinary call and a delegation have been logged
\* or passed over, and a further completion call was made after a single call
C29_Witness ==
  /\ debug /\ pc = "done" /\ error = "tool"
  /\ Len(ToolEvents) = 2
  /\ \E c \in CallsOf(currentMessages) : IsDelegation(c.name)
  /\ modelCalls >= 2

\* one descriptor per registered helper, with distinct names, a required task
\* parameter, the helper-agent origin and an id the registry resolves
DelegationDescriptors ==
  /\ \A h \in HelperIds :
       Cardinality({ t \in getHelperAgentTools : t.helperId = h }) = 1
  /\ Cardinality(getHelperAgentTools) = Cardinality(HelperIds)
  /\ \A t \in getHelperAgentTools, u \in getHelperAgentTools :
       t.name = u.name => t = u
  /\ \A t \in getHelperAgentTools :
       /\ "task" \in t.required
       /\ t.origin = "helper-agent"
       /\ getHelperAgent(t.helperId).kind = "config"

\* how the coordinator disposes of the tool call it is looking at
RoutesByName ==
  pc = "tools" =>
    IF enableHelpers /\ CurrentCall.name \in { t.name : t \in getHelperAgentTools }
    THEN /\ helperRuns' = helperRuns + 1
         /\ gatewayCalls' = gatewayCalls
         /\ pc' = "helper" => hId' \in HelperIds
    ELSE /\ helperRuns' = helperRuns
         /\ hpc' = "none"
         /\ \/ gatewayCalls' = gatewayCalls + 1 /\ pc' = "tool"
            \/ gatewayCalls' = gatewayCalls /\ pc' = "done" /\ error' = "tool"

RoutesByNameParsed ==
  pc = "tools" =>
    IF enableHelpers /\ CurrentCall.name \in { t.name : t \in getHelperAgentTools }
    THEN IF ParsedArgs(CurrentCall.arguments).isNull
         THEN /\ helperRuns' = helperRuns
              /\ gatewayCalls' = gatewayCalls
              /\ pc' # "tool" /\ pc' # "helper" /\ hpc' = "none"
         ELSE /\ helperRuns' = helperRuns + 1
              /\ gatewayCalls' = gatewayCalls
              /\ pc' = "helper" => hId' \in HelperIds
    ELSE /\ helperRuns' = helperRuns
         /\ hpc' = "none"
         /\ \/ gatewayCalls' = gatewayCalls + 1 /\ pc' = "tool"
            \/ gatewayCalls' = gatewayCalls /\ pc' = "done" /\ error' = "tool"

C31_ConfigsImmutable ==
  /\ regLast.call = "getMainAgent" =>
       regLast.result = getMainAgentResult(
                          [c \in ConfigIds |-> ConfiguredMaxIterations(c)],
                          [c \in ConfigIds |-> 0])
  /\ regLast.call = "getHelperAgent" =>
       regLast.result = getHelperAgentResult(
                          [c \in ConfigIds |-> ConfiguredMaxIterations(c)],
                          [c \in ConfigIds |-> 0], regLast.arg)
  /\ regLast.call = "getAllHelpers" =>
       regLast.result = getAllHelpersResult(
                          [c \in ConfigIds |-> ConfiguredMaxIterations(c)],
                          [c \in ConfigIds |-> 0])

\* positions of the messages the prompt rendered, in the order rendered
RenderedPositions == [i \in 1..Len(cwLines) |-> cwLines[i].pos]

\* the positions of the last k messages of the conversation, in order
LastPositions(k) ==
  [i \in 1..k |-> Len(cwConv) - k + i]

FetchCompletes == remote' # remote /\ remote' \subseteq remote

\* the request that completes, and how its owner's promise settled
CompletedRequest == CHOOSE r \in remote : r \notin remote'
FetchSucceeded == FetchCompletes /\ cvia'[CompletedRequest.owner] = "ok"
FetchFailed == FetchCompletes /\ cvia'[CompletedRequest.owner] = "fail"

\* the cache holds the normalized payload of the last successful fetch and
\* the time it completed, or nothing before the first one
CacheIsLastGoodFetch ==
  IF everGood
  THEN cachedTools = lastGood /\ cacheFetchedAt = lastGoodAt
  ELSE cachedTools = <<>> /\ cacheFetchedAt = 0

\* descriptor set and timestamp change in successful fetches only, and
\* there both are assigned
ChangesOnlyWithSuccess ==
  /\ ~FetchSucceeded => UNCHANGED <<cachedTools, cacheFetchedAt>>
  /\ FetchSucceeded => cacheFetchedAt' = clock /\ cachedTools' = lastGood'

\* a call that finds the cache not fresh and nothing in flight issues a fetch
StaleCallFetches ==
  \A p \in Callers :
    (cpc[p] = "idle" /\ cpc'[p] # "idle" /\ ~CacheFresh(FALSE) /\ ~HasInflight)
      => (remote' # remote /\ remote \subseteq remote' /\ cpc'[p] = "awaiting")

\* when the fetch that failed was forced, the cache stays as fresh
\* as it was; otherwise the cache is not fresh afterwards
FailureKeepsFreshness ==
  FetchFailed =>
    /\ ~HasInflight'
    /\ IF CompletedRequest.force
       THEN CacheFresh(FALSE)' <=> CacheFresh(FALSE)
       ELSE ~CacheFresh(FALSE)'

\* after any failed fetch the cache is not fresh
FailureLeavesStale == FetchFailed => (~HasInflight' /\ ~CacheFresh(FALSE)')

\* C33 as stated: the cache changes only with a successful fetch, equals the
\* last successful payload, and after every failed fetch it is not fresh, so
\* that the next non-forced call fetches again
C33_FailureThenRefetch ==
  /\ []CacheIsLastGoodFetch
  /\ [][ChangesOnlyWithSuccess /\ StaleCallFetches /\ FailureLeavesStale]_vars

\* C33, amended: the same, except that a failed forced refresh of a cache
\* that is still fresh leaves it fresh, so the next non-forced call is served
\* from the cache
C33_FailureLeavesCacheAsItWas ==
  /\ []CacheIsLastGoodFetch
  /\ [][ChangesOnlyWithSuccess /\ StaleCallFetches /\ FailureKeepsFreshness]_vars

\* a non-forced fetch has failed on a cache that holds descriptors past
\* their TTL
C33_Witness ==
  /\ everGood /\ Len(cachedTools) > 0
  /\ clock - cacheFetchedAt >= TOOL_CACHE_TTL_MS
  /\ remote = {} /\ ~HasInflight
  /\ \E p \in Callers : cpc[p] = "resolved" /\ cvia[p] = "fail"

\* the marker names the owner of the one outstanding request, and is
\* clear when no request is outstanding
MarkerWhileOutstanding ==
  IF HasInflight
  THEN \E r \in remote : r.owner = inflightPromise /\ remote = {r}
  ELSE remote = {}

\* a caller that awaits a fetch awaits the outstanding one
AwaitsOutstandingFetch ==
  \A p \in Callers :
    cpc[p] = "awaiting" =>
      /\ cawait[p] = inflightPromise
      /\ \E r \in remote : r.owner = cawait[p]

\* the step of a completing fetch, success or failure, clears the marker
CompletionClearsMarker == FetchCompletes => ~HasInflight'

\* C34: the in-flight marker is set exactly while a remote fetch is
\* outstanding and cleared when it completes, on success and on failure; a
\* call is never attached to a finished fetch; and, every remote fetch
\* completing, every refreshTools call resolves
C34_MarkerAndResolution ==
  /\ [](MarkerWhileOutstanding /\ AwaitsOutstandingFetch)
  /\ [][CompletionClearsMarker]_vars
  /\ \A p \in Callers : (cpc[p] = "awaiting") ~> (cpc[p] = "resolved")

\* one fetch has failed and a later call has started a fetch of its own
C34_Witness ==
  \E p \in Callers, q \in Callers :
    /\ p # q
    /\ cpc[q] = "resolved" /\ cvia[q] = "fail"
    /\ cpc[p] = "awaiting" /\ cawait[p] = p
    /\ remote = {[owner |-> p, force |-> FALSE]}

\* the caller's list is the one it passed for as long as the run lasts
ConversationUntouched == pc # "idle" => conversation' = conversation

\* the returned messages, put after the prompt the run started from, are
\* the working conversation the run ended with
ReturnsWhatItAppended ==
  (pc = "done" /\ outcome = "returned") =>
    /\ mainAgentMessages(conversation) \o result.messages = currentMessages
    /\ \A i \in 1..Len(result.messages) :
         /\ result.messages[i].role \in {"assistant", "tool"}
         /\ result.messages[i] \notin
              {SystemPrompt, CurrentUser, UserMessage}
                \cup { conversation[k] : k \in 1..Len(conversation) }

\* C35: handleRequest leaves the caller's conversation list as it was, and
\* the messages it returns are exactly those appended during the run, in
\* order, without the system prompts, the prior conversation or the current
\* user message
C35_ReturnsOnlyNewMessages ==
  /\ []ReturnsWhatItAppended
  /\ [][ConversationUntouched]_vars

\* a run over a prior conversation has returned an assistant message with a
\* tool call, the tool result and the final assistant message
C35_Witness ==
  /\ pc = "done" /\ outcome = "returned"
  /\ Len(conversation) = 2
  /\ Len(result.messages) = 3
  /\ result.messages[2].role = "tool"

\* the coordinator's working conversation: everything after its two system
\* prompts, i.e. the prior conversation, the current user message and what
\* the turn has appended so far
WorkingConversation == SubSeq(currentMessages, 3, Len(currentMessages))

\* the "Recent conversation" message of a helper prompt built from conv
RecentConversationMsg(conv) ==
  Msg("system", Text("recent-conversation", Len(RecentMessages(hId, conv))),
      NoCalls, 0, "", "")

\* C37: the recent-message context a delegated helper gets is the last 6
\* messages of the working conversation as it stands when the coordinator
\* delegates, the current user message and the messages already appended in
\* this turn included
C37_ContextIsWorkingConversation ==
  (pc = "helper" /\ hpc \notin {"none", "refresh"}) =>
    /\ DelegatedConversation
         = SliceLast(WorkingConversation, HelperContextMessages)
    /\ \E i \in 1..Len(hMessages) :
         hMessages[i] = RecentConversationMsg(
                          SliceLast(WorkingConversation, HelperContextMessages))

\* no helper run starts while a helper run is under way
NoRunInsideARun == hpc # "none" => helperRuns' = helperRuns

\* a call of the helper that names a delegation tool and whose arguments
\* parse becomes a request to the gateway
DelegationNameGoesToGateway ==
  (InHelper /\ hpc = "tools" /\ hpc' # "tools"
     /\ IsDelegationName(HelperCurrentCall.name)
     /\ ArgumentsParse(HelperCurrentCall))
    => (hpc' = "tool" /\ gatewayCalls' = gatewayCalls + 1)

\* C36: a helper run never starts another helper run; a delegation-tool
\* name in a helper's response is sent to the gateway as an ordinary call
C36_DepthOne == [][NoRunInsideARun /\ DelegationNameGoesToGateway]_vars

\* a delegated helper waits for the gateway's answer to a call that names a
\* delegation tool
C36_Witness ==
  /\ pc = "helper" /\ hpc = "tool"
  /\ IsDelegationName(HelperCurrentCall.name)
  /\ helperRuns = 1 /\ gatewayCalls >= 1

\* the coordinator is at a delegation call whose arguments hold no task
AtTasklessDelegation ==
  /\ pc = "tools"
  /\ IsDelegation(CurrentCall.name)
  /\ ~ParsedArgs(CurrentCall.arguments).hasTask

\* the tool-result messages for call id in the results gathered so far or,
\* once the response's calls are done, in the working conversation
ErrorResultsFor(id, results, msgs) ==
  { i \in 1..Len(results \o msgs) :
      /\ (results \o msgs)[i].role = "tool"
      /\ (results \o msgs)[i].tool_call_id = id
      /\ (results \o msgs)[i].content = Text("helper-error", id) }

\* C38: a delegation call with malformed arguments or without a task is a
\* recoverable failure: one tool-result message with the call's id and the
\* error text, the turn goes on, handleRequest does not throw, and the
\* helper makes no completion call
C38_TasklessDelegationRecovers ==
  [][ (AtTasklessDelegation /\ (pc' # pc \/ tidx' # tidx)) =>
        /\ pc' \in {"tools", "loop"}
        /\ outcome' # "threw"
        /\ hpc' = "none" /\ hModelCalls' = hModelCalls
        /\ Cardinality(ErrorResultsFor(CurrentCall.id, toolResults',
                                       currentMessages')) = 1 ]_vars

\* every tool message of msgs follows an assistant message of msgs that
\* carries its tool call id
ToolMessagesAnchored(msgs) ==
  \A i \in 1..Len(msgs) :
    msgs[i].role = "tool" =>
      \E j \in 1..(i - 1) :
        /\ msgs[j].role = "assistant"
        /\ \E k \in 1..Len(msgs[j].tool_calls) :
             msgs[j].tool_calls[k].id = msgs[i].tool_call_id

\* C39: in handleAssistantResponse every prompt sent to the completion
\* service keeps the tool-message invariant: the window of the last
\* CONTEXT_MESSAGE_COUNT messages holds no tool message whose assistant
\* message was cut off
C39_WindowKeepsToolInvariant ==
  chPc = "streaming" => ToolMessagesAnchored(modelConversation)

\* the turn ended after MAX_TOOL_ITERATIONS responses that all carried tool
\* calls
LimitReached == chPc = "done" /\ chIterations = MAX_TOOL_ITERATIONS

\* the limit error reaches the client as an error frame closing the stream,
\* unless the connection is already closed, and the history is not saved
LimitSurfacesAsError ==
  LimitReached =>
    /\ chOutcome = "threw" /\ chError = "limit"
    /\ history = StoredConversation
    /\ ~clientClosed =>
         (resEnded /\ Len(frames) > 0 /\ Last(frames).event = "error")
    /\ \A i \in 1..Len(frames) : frames[i].event # "done"

\* a step taken while a response's tool calls are being executed never ends
\* the turn, and when it adds to the conversation it adds the one tool message
\* answering the current call, with the result or the failure text
ToolStepKeepsLoop ==
  chPc \in {"tools", "tool"} =>
    /\ chPc' \in {"tools", "tool", "loop"}
    /\ chOutcome' = "none"
    /\ sessionMessages' # sessionMessages =>
         /\ Len(sessionMessages') = Len(sessionMessages) + 1
         /\ SubSeq(sessionMessages', 1, Len(sessionMessages)) = sessionMessages
         /\ Last(sessionMessages').role = "tool"
         /\ Last(sessionMessages').tool_call_id = ChatCurrentCall.id
         /\ Last(sessionMessages').content.kind \in {"tool-result", "tool-failed"}

\* C40: handleAssistantResponse makes at most MAX_TOOL_ITERATIONS completion
\* calls per turn; when every one of them returns tool calls the turn fails
\* with the tool-invocation-limit error, sent as an error event with no
\* history saved, and never returns normally; a failing tool call becomes a
\* tool message carrying the failure text and does not end the loop
C40_LoopLimitAndToolFailures ==
  /\ [](chModelCalls <= MAX_TOOL_ITERATIONS)
  /\ []LimitSurfacesAsError
  /\ [][ToolStepKeepsLoop]_vars

\* a turn of MAX_TOOL_ITERATIONS completion calls ended with the limit error
\* on an open connection, one of its tool calls having failed at the gateway
C40_Witness ==
  /\ LimitReached /\ chError = "limit" /\ ~clientClosed
  /\ chModelCalls = MAX_TOOL_ITERATIONS
  /\ Last(frames).event = "error"
  /\ \E i \in 1..Len(sessionMessages) :
       /\ sessionMessages[i].role = "tool"
       /\ sessionMessages[i].content.kind = "tool-failed"
       /\ \E j \in 1..(i - 1) : \E k \in 1..Len(sessionMessages[j].tool_calls) :
            /\ sessionMessages[j].tool_calls[k].id = sessionMessages[i].tool_call_id
            /\ sessionMessages[j].tool_calls[k].arguments = "task-and-context"

====
